---- MODULE Spec2Model ----
(***************************************************************************)
(* A model of the drain3 log template miner: the Drain prefix-tree engine  *)
(* (src/src/drain.rs), the LogCluster / Node types (src/src/cluster.rs)    *)
(* and the TemplateMiner facade (src/src/template_miner.rs).               *)
(*                                                                         *)
(* Strings are sequences of lexical pieces ("a", " ", "<", "TOKEN", "1"),  *)
(* so that starts_with, split_whitespace, format! and to_string are        *)
(* computed, not assumed.  A token is a non-empty sequence of pieces.      *)
(***************************************************************************)
EXTENDS Integers, Sequences, FiniteSets, TLC

\* ------------------------------------------------------------------ bounds
\* the number of ingests a run of Spec (MaxIngests) and of SpecDeep (MaxIngestsDeep) makes
MaxIngests == 3

MaxIngestsDeep == 4
\* the clock advances to at most MaxTicks half minutes
MaxTicks == 4
\* the texts given to the masker have at most MaxMaskLen pieces
MaxMaskLen == 3
\* a masker has at most MaxRules rules
MaxRules == 2

\* the largest depth an engine is constructed with
MaxDepth == 4

\* the largest number of candidates handed to fast_match
MaxCandidates == 2

\* the largest token count of a template or line handed to update_template
MaxTemplateLen == 2

\* the largest drain_max_clusters of a configuration
MaxMaxClusters == 1

\* ------------------------------------------------------- strings and tokens
SPACE == " "

Digits == {"0", "1", "2", "3", "4", "5", "6", "7", "8", "9"}

DigitChars == <<"0", "1", "2", "3", "4", "5", "6", "7", "8", "9">>

\* usize::to_string / "{}" of an integer: the decimal digits, most significant first
RECURSIVE to_string(_)
to_string(n) ==
    IF n < 10 THEN <<DigitChars[n + 1]>>
    ELSE to_string(n \div 10) \o <<DigitChars[(n % 10) + 1]>>

\* str::starts_with
starts_with(s, prefix) ==
    /\ Len(s) >= Len(prefix)
    /\ SubSeq(s, 1, Len(prefix)) = prefix

\* the tokens that log lines are built from: two plain words and a word with a digit
Alphabet == { <<"a">>, <<"b">>, <<"d", "1">> }

\* the token counts of the lines
LineLengths == {0, 1, 2}

TokenSeqs == UNION { [1..n -> Alphabet] : n \in LineLengths }

\* a line: its tokens separated by single spaces
RECURSIVE Join(_)
Join(toks) ==
    IF toks = <<>> THEN <<>>
    ELSE IF Len(toks) = 1 THEN toks[1]
    ELSE toks[1] \o <<SPACE>> \o Join(Tail(toks))

\* lines with surrounding and repeated whitespace, and a whitespace-only line
ExtraContents ==
    { <<SPACE>>,
      <<SPACE, "a", SPACE, SPACE, "b", SPACE>> }

Contents == { Join(toks) : toks \in TokenSeqs } \cup ExtraContents

None == <<>>
Some(x) == <<x>>

\* ------------------------------------------------------------------- state
VARIABLES
    log_cluster_depth,          \* Drain.log_cluster_depth
    max_children,               \* Drain.max_children
    sim_th,                     \* Drain.sim_th, a rational <<num, den>>
    parametrize_numeric_tokens, \* Drain.parametrize_numeric_tokens
    max_clusters,               \* Drain.max_clusters, an Option
    construction,               \* the call of TemplateMiner::new: its result ("Unbuilt"
                                \* before the call, then "Ok" or "Panic"), the depth and
                                \* the masking rules of its configuration
    root_node,                  \* Drain.root_node: path -> cluster_ids of the node there
    id_to_cluster,              \* Drain.id_to_cluster: id -> [tokens, cluster_id, size]
    clusters_counter,           \* Drain.clusters_counter
    token_template_counter,     \* Drain.token_template_counter
    persistence_handler,        \* TemplateMiner.persistence_handler is Some
    last_save_time,             \* TemplateMiner.last_save_time
    state_dirty,                \* TemplateMiner.state_dirty
    now,                        \* the system clock, in seconds
    saved,                      \* what the persistence handler holds
    ret,                        \* what the last add_log_message returned
    out,                        \* what the last match_cluster / extract_parameters returned
    last_tokens,                \* history: the tokens of the last ingested line
    absorbed,                   \* history: id -> the lines the cluster was returned for
    created_count,              \* history: number of ingests that returned Created
    n_ingest,                   \* history: number of ingests
    ingest_limit,               \* the number of ingests this run makes
    save_call,                  \* history: what the save of the last ingest did, NoCall
                                \* when it made none or save_state was called since
    original,                   \* history: the Drain of the miner that saved the state
    loaded,                     \* history: the miner was constructed over a saved state
    engines,                    \* the engines built on Node::add_cluster: name -> engine
    CLUSTER_MAP                 \* the process-wide CLUSTER_MAP: id -> the engine whose
                                \* cluster (Arc) is registered under the id

cfgVars == <<log_cluster_depth, max_children, sim_th, parametrize_numeric_tokens,
             max_clusters, construction>>
drainVars == <<root_node, id_to_cluster, clusters_counter, token_template_counter>>
minerVars == <<persistence_handler, last_save_time, state_dirty, saved>>
histVars == <<last_tokens, absorbed, created_count, n_ingest, ingest_limit, save_call,
              original, loaded>>
registryVars == <<engines, CLUSTER_MAP>>
vars == <<cfgVars, drainVars, minerVars, now, ret, out, histVars, registryVars>>

\* ------------------------------------------------------------- Drain::new
extra_delimiters == <<>>

token_prefix == <<"<">>

token_suffix == <<">">>

token_template == <<"TOKEN">>

token_template_check == token_prefix \o token_template

\* ------------------------------------------------------------------- Node
\* A node is named by its path from the root: a sequence of edges.
ChildEdge(key) == [kind |-> "child", key |-> key]

WildcardEdge == [kind |-> "wildcard", key |-> <<>>]

NodeNew == <<>>

has_child(t, p, token) == Append(p, ChildEdge(token)) \in DOMAIN t

has_wildcard(t, p) == Append(p, WildcardEdge) \in DOMAIN t

\* Node::get
get(t, p, token) ==
    IF has_child(t, p, token) THEN Some(Append(p, ChildEdge(token))) ELSE None

\* a lookup that takes the wildcard child before the child keyed by the token
find_next_wildcard(t, p, token) ==
    IF has_wildcard(t, p) THEN Some(Append(p, WildcardEdge))
    ELSE IF has_child(t, p, token) THEN Some(Append(p, ChildEdge(token)))
    ELSE None

\* Node::find_next
find_next(t, p, token) ==
    IF has_child(t, p, token) THEN Some(Append(p, ChildEdge(token)))
    ELSE IF has_wildcard(t, p) THEN Some(Append(p, WildcardEdge))
    ELSE None

\* the keys of Node.children
ChildKeys(t, p) ==
    { q[Len(q)].key : q \in { r \in DOMAIN t :
          /\ Len(r) = Len(p) + 1
          /\ SubSeq(r, 1, Len(p)) = p
          /\ r[Len(r)].kind = "child" } }

\* Node::child_count: both branches return 1 + children.len()
child_count(t, p) == 1 + Cardinality(ChildKeys(t, p))

\* Node::get_or_insert_child (and get_or_insert at the root)
get_or_insert_child(t, p, token) ==
    IF has_child(t, p, token) THEN t
    ELSE t @@ (Append(p, ChildEdge(token)) :> NodeNew)

\* Node::get_or_insert_wildcard
get_or_insert_wildcard(t, p) ==
    IF has_wildcard(t, p) THEN t
    ELSE t @@ (Append(p, WildcardEdge) :> NodeNew)

\* Node::first_cluster_id
first_cluster_id(t, p) == IF t[p] = <<>> THEN None ELSE Some(t[p][1])

\* cluster_ids.push
PushCluster(t, p, id) == [t EXCEPT ![p] = Append(@, id)]

\* ------------------------------------------------------------ tokenization
IsWhitespace(c) == c = SPACE

\* str::trim
RECURSIVE TrimStart(_)
TrimStart(s) ==
    IF s # <<>> /\ IsWhitespace(Head(s)) THEN TrimStart(Tail(s)) ELSE s

RECURSIVE TrimEnd(_)
TrimEnd(s) ==
    IF s # <<>> /\ IsWhitespace(s[Len(s)]) THEN TrimEnd(SubSeq(s, 1, Len(s) - 1)) ELSE s

trim(s) == TrimEnd(TrimStart(s))

\* str::replace(from, to): every non-overlapping occurrence, left to right
RECURSIVE replace(_, _, _)
replace(s, from, to) ==
    IF s = <<>> \/ from = <<>> THEN s
    ELSE IF starts_with(s, from)
         THEN to \o replace(SubSeq(s, Len(from) + 1, Len(s)), from, to)
         ELSE <<Head(s)>> \o replace(Tail(s), from, to)

\* the loop over extra_delimiters in Drain::get_content_as_tokens
RECURSIVE ReplaceDelimiters(_, _)
ReplaceDelimiters(s, delimiters) ==
    IF delimiters = <<>> THEN s
    ELSE ReplaceDelimiters(replace(s, Head(delimiters), <<SPACE>>), Tail(delimiters))

\* str::split_whitespace: the maximal runs of non-whitespace
RECURSIVE split_whitespace(_, _, _)
split_whitespace(s, cur, acc) ==
    IF s = <<>> THEN (IF cur = <<>> THEN acc ELSE Append(acc, cur))
    ELSE IF IsWhitespace(Head(s))
         THEN split_whitespace(Tail(s), <<>>, IF cur = <<>> THEN acc ELSE Append(acc, cur))
         ELSE split_whitespace(Tail(s), Append(cur, Head(s)), acc)

\* Drain::get_content_as_tokens
get_content_as_tokens(content) ==
    split_whitespace(ReplaceDelimiters(trim(content), extra_delimiters), <<>>, <<>>)

\* Drain::has_numbers
has_numbers(token) == \E i \in 1..Len(token) : token[i] \in Digits

\* --------------------------------------------------------------- similarity
\* Drain::is_token
is_token(template, token) == starts_with(token, template)

\* an f64 similarity is kept as the exact fraction <<num, den>>, den > 0
SimGt(a, b) == a[1] * b[2] > b[1] * a[2]

SimEq(a, b) == a[1] * b[2] = b[1] * a[2]

SimGe(a, b) == a[1] * b[2] >= b[1] * a[2]

\* Drain::get_seq_distance: <<similarity, param_count>>
get_seq_distance(seq1, seq2, template, include_params) ==
    IF Len(seq1) # Len(seq2) THEN << <<0, 1>>, 0 >>
    ELSE IF seq1 = <<>> THEN << <<1, 1>>, 0 >>
    ELSE LET params == { i \in 1..Len(seq1) : is_token(template, seq1[i]) }
             same == { i \in 1..Len(seq1) : i \notin params /\ seq1[i] = seq2[i] }
             param_count == Cardinality(params)
             sim_tokens == Cardinality(same) + (IF include_params THEN param_count ELSE 0)
         IN << <<sim_tokens, Len(seq1)>>, param_count >>

\* the loop taking the last of the candidates that score the same
RECURSIVE FastMatchLoopLast(_, _, _, _, _, _, _)
FastMatchLoopLast(clusters, cluster_ids, i, tokens, include_params, template, best) ==
    IF i > Len(cluster_ids) THEN best
    ELSE LET cluster_id == cluster_ids[i]
         IN IF cluster_id \notin DOMAIN clusters
            THEN FastMatchLoopLast(clusters, cluster_ids, i + 1, tokens, include_params,
                                   template, best)
            ELSE LET d == get_seq_distance(clusters[cluster_id].tokens, tokens, template,
                                           include_params)
                     better == \/ SimGt(d[1], best[1])
                               \/ (SimEq(d[1], best[1]) /\ d[2] >= best[2])
                 IN FastMatchLoopLast(clusters, cluster_ids, i + 1, tokens,
                                      include_params, template,
                                      IF better THEN <<d[1], d[2], Some(cluster_id)>>
                                      ELSE best)

\* the loop of Drain::fast_match: best is <<max_sim, max_param_count, max_cluster>>
RECURSIVE FastMatchLoop(_, _, _, _, _, _, _)
FastMatchLoop(clusters, cluster_ids, i, tokens, include_params, template, best) ==
    IF i > Len(cluster_ids) THEN best
    ELSE LET cluster_id == cluster_ids[i]
         IN IF cluster_id \notin DOMAIN clusters
            THEN FastMatchLoop(clusters, cluster_ids, i + 1, tokens, include_params,
                               template, best)
            ELSE LET d == get_seq_distance(clusters[cluster_id].tokens, tokens, template,
                                           include_params)
                     better == \/ SimGt(d[1], best[1])
                               \/ (SimEq(d[1], best[1]) /\ d[2] > best[2])
                 IN FastMatchLoop(clusters, cluster_ids, i + 1, tokens, include_params,
                                  template,
                                  IF better THEN <<d[1], d[2], Some(cluster_id)>> ELSE best)

\* Drain::fast_match
fast_match(clusters, cluster_ids, tokens, th, include_params, template) ==
    LET best == FastMatchLoop(clusters, cluster_ids, 1, tokens, include_params, template,
                              << <<-1, 1>>, -1, None >>)
    IN IF SimGe(best[1], th) THEN best[3] ELSE None

\* the descent loop of Drain::tree_search; i indexes the token of this iteration
RECURSIVE SearchLoop(_, _, _, _, _, _)
SearchLoop(t, cur_node, tokens, i, cur_node_depth, max_node_depth) ==
    IF i > Len(tokens) THEN Some(cur_node)
    ELSE IF cur_node_depth >= max_node_depth THEN Some(cur_node)
    ELSE IF cur_node_depth = Len(tokens) THEN Some(cur_node)
    ELSE LET next == find_next(t, cur_node, tokens[i])
         IN IF next = None THEN None
            ELSE SearchLoop(t, next[1], tokens, i + 1, cur_node_depth + 1, max_node_depth)

\* a search that finds nothing for a line without tokens
tree_search_empty_none(t, clusters, tokens, th, include_params, depth, template) ==
    LET token_count == Len(tokens)
        first == get(t, <<>>, to_string(token_count))
    IN IF first = None THEN None
       ELSE IF token_count = 0 THEN None
       ELSE LET leaf == SearchLoop(t, first[1], tokens, 1, 1, depth - 2)
            IN IF leaf = None THEN None
               ELSE fast_match(clusters, t[leaf[1]], tokens, th, include_params, template)

\* Drain::tree_search
tree_search(t, clusters, tokens, th, include_params, depth, template) ==
    LET token_count == Len(tokens)
        first == get(t, <<>>, to_string(token_count))
    IN IF first = None THEN None
       ELSE IF token_count = 0 THEN first_cluster_id(t, first[1])
       ELSE LET leaf == SearchLoop(t, first[1], tokens, 1, 1, depth - 2)
            IN IF leaf = None THEN None
               ELSE fast_match(clusters, t[leaf[1]], tokens, th, include_params, template)

\* ------------------------------------------------------------- LogCluster
\* LogCluster::new
LogClusterNew(tokens, cluster_id) ==
    [tokens |-> tokens, cluster_id |-> cluster_id, size |-> 1]

\* get_next_token formatting the counter it had before the increment
get_next_token_stale(counter) ==
    token_prefix \o token_template \o to_string(counter - 1) \o token_suffix

\* the get_next_token closure of Drain::add_log_message, after counter += 1
get_next_token(counter) ==
    token_prefix \o token_template \o to_string(counter) \o token_suffix

Min(a, b) == IF a < b THEN a ELSE b

\* the zip/map advancing the counter for every position examined
RECURSIVE UpdateLoopPerPosition(_, _, _, _, _, _)
UpdateLoopPerPosition(tokens, old, i, new_tokens, counter, check) ==
    IF i > Min(Len(tokens), Len(old)) THEN [tokens |-> new_tokens, counter |-> counter]
    ELSE IF tokens[i] = old[i] \/ is_token(check, old[i])
         THEN UpdateLoopPerPosition(tokens, old, i + 1, Append(new_tokens, old[i]),
                                    counter + 1, check)
         ELSE UpdateLoopPerPosition(tokens, old, i + 1,
                                    Append(new_tokens, get_next_token(counter + 1)),
                                    counter + 1, check)

\* the zip/map replacing every position that differs from the line, placeholder or not
RECURSIVE UpdateLoopNoCheck(_, _, _, _, _, _)
UpdateLoopNoCheck(tokens, old, i, new_tokens, counter, check) ==
    IF i > Min(Len(tokens), Len(old)) THEN [tokens |-> new_tokens, counter |-> counter]
    ELSE IF tokens[i] = old[i]
         THEN UpdateLoopNoCheck(tokens, old, i + 1, Append(new_tokens, old[i]), counter,
                                check)
         ELSE UpdateLoopNoCheck(tokens, old, i + 1,
                                Append(new_tokens, get_next_token(counter + 1)),
                                counter + 1, check)

\* the zip/map replacing every position that holds no placeholder
RECURSIVE UpdateLoopMintAll(_, _, _, _, _, _)
UpdateLoopMintAll(tokens, old, i, new_tokens, counter, check) ==
    IF i > Min(Len(tokens), Len(old)) THEN [tokens |-> new_tokens, counter |-> counter]
    ELSE IF is_token(check, old[i])
         THEN UpdateLoopMintAll(tokens, old, i + 1, Append(new_tokens, old[i]), counter,
                                check)
         ELSE UpdateLoopMintAll(tokens, old, i + 1,
                                Append(new_tokens, get_next_token(counter + 1)),
                                counter + 1, check)

\* the zip/map of LogCluster::update_template: [tokens, counter]
RECURSIVE UpdateLoop(_, _, _, _, _, _)
UpdateLoop(tokens, old, i, new_tokens, counter, check) ==
    IF i > Min(Len(tokens), Len(old)) THEN [tokens |-> new_tokens, counter |-> counter]
    ELSE IF tokens[i] = old[i] \/ is_token(check, old[i])
         THEN UpdateLoop(tokens, old, i + 1, Append(new_tokens, old[i]), counter, check)
         ELSE UpdateLoop(tokens, old, i + 1,
                         Append(new_tokens, get_next_token(counter + 1)), counter + 1, check)

\* update_template that drops the positions that differ instead of generalizing them
update_template_drop(cluster, tokens, check, counter) ==
    LET kept == SelectSeq([i \in 1..Len(cluster.tokens) |-> i],
                          LAMBDA i : i <= Len(tokens) /\ tokens[i] = cluster.tokens[i])
        new_tokens == [k \in 1..Len(kept) |-> cluster.tokens[kept[k]]]
        changed == new_tokens # cluster.tokens
    IN [cluster |-> [cluster EXCEPT !.size = @ + 1, !.tokens = new_tokens],
        update_type |-> IF changed THEN "Updated" ELSE "None",
        counter |-> counter]

\* update_template that never generalizes
update_template_keep(cluster, tokens, check, counter) ==
    [cluster |-> [cluster EXCEPT !.size = @ + 1],
     update_type |-> "None",
     counter |-> counter]

\* update_template that counts a line only when the template changed
update_template_size(cluster, tokens, check, counter) ==
    LET r == UpdateLoop(tokens, cluster.tokens, 1, <<>>, counter, check)
        changed == r.tokens # cluster.tokens
    IN [cluster |-> IF changed THEN [cluster EXCEPT !.size = @ + 1, !.tokens = r.tokens]
                    ELSE cluster,
        update_type |-> IF changed THEN "Updated" ELSE "None",
        counter |-> r.counter]

\* LogCluster::update_template: [cluster, update_type, counter]
update_template(cluster, tokens, check, counter) ==
    LET r == UpdateLoop(tokens, cluster.tokens, 1, <<>>, counter, check)
        changed == r.tokens # cluster.tokens
    IN [cluster |-> [cluster EXCEPT !.size = @ + 1,
                                    !.tokens = IF changed THEN r.tokens ELSE @],
        update_type |-> IF changed THEN "Updated" ELSE "None",
        counter |-> r.counter]

\* ------------------------------------------------------------ tree insertion
\* the edge of an insertion that creates a literal child for every token without digits
InsertEdgeLiteral(t, cur_node, token, maxc, parametrize) ==
    IF parametrize /\ has_numbers(token) THEN WildcardEdge ELSE ChildEdge(token)

\* the edge Drain::add_seq_to_prefix_tree descends through for a token without a child
InsertEdge(t, cur_node, token, maxc, parametrize) ==
    IF parametrize /\ has_numbers(token) THEN WildcardEdge
    ELSE IF has_wildcard(t, cur_node)
         THEN (IF child_count(t, cur_node) < maxc THEN ChildEdge(token) ELSE WildcardEdge)
    ELSE IF child_count(t, cur_node) + 1 < maxc THEN ChildEdge(token)
    ELSE WildcardEdge

\* the loop with a numeric token going on to the next token at the same depth (the
\* continue of Node::add_cluster), so that it can end without attaching the cluster
RECURSIVE InsertLoopContinue(_, _, _, _, _, _, _, _, _)
InsertLoopContinue(t, cur_node, tokens, cluster_id, i, current_depth, max_node_depth, maxc, parametrize) ==
    IF i > Len(tokens) THEN t
    ELSE IF current_depth >= max_node_depth \/ current_depth >= Len(tokens)
         THEN PushCluster(t, cur_node, cluster_id)
    ELSE IF has_child(t, cur_node, tokens[i])
         THEN InsertLoopContinue(t, Append(cur_node, ChildEdge(tokens[i])), tokens,
                                 cluster_id, i + 1, current_depth + 1, max_node_depth,
                                 maxc, parametrize)
    ELSE LET edge == InsertEdge(t, cur_node, tokens[i], maxc, parametrize)
             next == Append(cur_node, edge)
             t2 == IF next \in DOMAIN t THEN t ELSE t @@ (next :> NodeNew)
             numeric == parametrize /\ has_numbers(tokens[i])
         IN InsertLoopContinue(t2, next, tokens, cluster_id, i + 1,
                               IF numeric THEN current_depth ELSE current_depth + 1,
                               max_node_depth, maxc, parametrize)

\* the loop descending one node further before it attaches the cluster
RECURSIVE InsertLoopDeeper(_, _, _, _, _, _, _, _, _)
InsertLoopDeeper(t, cur_node, tokens, cluster_id, i, current_depth, max_node_depth, maxc, parametrize) ==
    IF i > Len(tokens) THEN PushCluster(t, cur_node, cluster_id)
    ELSE IF current_depth > max_node_depth
         THEN PushCluster(t, cur_node, cluster_id)
    ELSE IF has_child(t, cur_node, tokens[i])
         THEN InsertLoopDeeper(t, Append(cur_node, ChildEdge(tokens[i])), tokens, cluster_id,
                               i + 1, current_depth + 1, max_node_depth, maxc, parametrize)
    ELSE LET edge == InsertEdge(t, cur_node, tokens[i], maxc, parametrize)
             next == Append(cur_node, edge)
             t2 == IF next \in DOMAIN t THEN t ELSE t @@ (next :> NodeNew)
         IN InsertLoopDeeper(t2, next, tokens, cluster_id, i + 1, current_depth + 1,
                             max_node_depth, maxc, parametrize)

\* the loop choosing an edge without looking for a child keyed by the token first
RECURSIVE InsertLoopNoChild(_, _, _, _, _, _, _, _, _)
InsertLoopNoChild(t, cur_node, tokens, cluster_id, i, current_depth, max_node_depth, maxc, parametrize) ==
    IF i > Len(tokens) THEN t
    ELSE IF current_depth >= max_node_depth \/ current_depth >= Len(tokens)
         THEN PushCluster(t, cur_node, cluster_id)
    ELSE LET edge == InsertEdge(t, cur_node, tokens[i], maxc, parametrize)
             next == Append(cur_node, edge)
             t2 == IF next \in DOMAIN t THEN t ELSE t @@ (next :> NodeNew)
         IN InsertLoopNoChild(t2, next, tokens, cluster_id, i + 1, current_depth + 1,
                              max_node_depth, maxc, parametrize)

\* the for loop of Drain::add_seq_to_prefix_tree over cluster.tokens
RECURSIVE InsertLoop(_, _, _, _, _, _, _, _, _)
InsertLoop(t, cur_node, tokens, cluster_id, i, current_depth, max_node_depth, maxc, parametrize) ==
    IF i > Len(tokens) THEN t
    ELSE IF current_depth >= max_node_depth \/ current_depth >= Len(tokens)
         THEN PushCluster(t, cur_node, cluster_id)
    ELSE IF has_child(t, cur_node, tokens[i])
         THEN InsertLoop(t, Append(cur_node, ChildEdge(tokens[i])), tokens, cluster_id,
                         i + 1, current_depth + 1, max_node_depth, maxc, parametrize)
    ELSE LET edge == InsertEdge(t, cur_node, tokens[i], maxc, parametrize)
             next == Append(cur_node, edge)
             t2 == IF next \in DOMAIN t THEN t ELSE t @@ (next :> NodeNew)
         IN InsertLoop(t2, next, tokens, cluster_id, i + 1, current_depth + 1,
                       max_node_depth, maxc, parametrize)

\* add_seq_to_prefix_tree that keys the first layer by the number of nodes, not of tokens
add_seq_to_prefix_tree_key(t, cluster, depth, maxc, parametrize) ==
    LET token_count == Len(cluster.tokens)
        token_count_str == to_string(Min(token_count, depth - 2))
        t1 == get_or_insert_child(t, <<>>, token_count_str)
        first_layer_node == <<ChildEdge(token_count_str)>>
    IN IF token_count = 0 THEN PushCluster(t1, first_layer_node, cluster.cluster_id)
       ELSE InsertLoop(t1, first_layer_node, cluster.tokens, cluster.cluster_id, 1, 1,
                       depth - 2, maxc, parametrize)

\* add_seq_to_prefix_tree that descends through the first token before it looks at the depth
add_seq_to_prefix_tree_descend(t, cluster, depth, maxc, parametrize) ==
    LET token_count == Len(cluster.tokens)
        token_count_str == to_string(token_count)
        t1 == get_or_insert_child(t, <<>>, token_count_str)
        first_layer_node == <<ChildEdge(token_count_str)>>
        edge == IF has_child(t1, first_layer_node, cluster.tokens[1])
                THEN ChildEdge(cluster.tokens[1])
                ELSE InsertEdge(t1, first_layer_node, cluster.tokens[1], maxc, parametrize)
        next == Append(first_layer_node, edge)
        t2 == IF next \in DOMAIN t1 THEN t1 ELSE t1 @@ (next :> NodeNew)
    IN IF token_count = 0 THEN PushCluster(t1, first_layer_node, cluster.cluster_id)
       ELSE IF token_count = 1 THEN PushCluster(t2, next, cluster.cluster_id)
       ELSE InsertLoop(t1, first_layer_node, cluster.tokens, cluster.cluster_id, 1, 1,
                       depth - 2, maxc, parametrize)

\* Drain::add_seq_to_prefix_tree
add_seq_to_prefix_tree(t, cluster, depth, maxc, parametrize) ==
    LET token_count == Len(cluster.tokens)
        token_count_str == to_string(token_count)
        t1 == get_or_insert_child(t, <<>>, token_count_str)
        first_layer_node == <<ChildEdge(token_count_str)>>
    IN IF token_count = 0 THEN PushCluster(t1, first_layer_node, cluster.cluster_id)
       ELSE InsertLoop(t1, first_layer_node, cluster.tokens, cluster.cluster_id, 1, 1,
                       depth - 2, maxc, parametrize)

\* ------------------------------------------------------------------- Drain
\* the Drain value of the current state
Drain ==
    [log_cluster_depth |-> log_cluster_depth,
     sim_th |-> sim_th,
     max_children |-> max_children,
     max_clusters |-> max_clusters,
     parametrize_numeric_tokens |-> parametrize_numeric_tokens,
     root_node |-> root_node,
     id_to_cluster |-> id_to_cluster,
     clusters_counter |-> clusters_counter,
     token_template_counter |-> token_template_counter]

\* the tree_search call of Drain::add_log_message
IngestSearch(d, content_tokens) ==
    tree_search(d.root_node, d.id_to_cluster, content_tokens, d.sim_th, TRUE,
                d.log_cluster_depth, token_template)

\* the Some(cluster_id) arm without the write back of the counter
IngestMatchedKeepCounter(d, cluster_id, content_tokens) ==
    LET u == update_template(d.id_to_cluster[cluster_id], content_tokens,
                             token_template_check, d.token_template_counter)
    IN [drain |-> [d EXCEPT !.id_to_cluster = [@ EXCEPT ![cluster_id] = u.cluster]],
        cluster |-> u.cluster,
        update_type |-> u.update_type]

\* the Some(cluster_id) arm of Drain::add_log_message
IngestMatched(d, cluster_id, content_tokens) ==
    LET u == update_template(d.id_to_cluster[cluster_id], content_tokens,
                             token_template_check, d.token_template_counter)
    IN [drain |-> [d EXCEPT !.id_to_cluster = [@ EXCEPT ![cluster_id] = u.cluster],
                            !.token_template_counter = u.counter],
        cluster |-> u.cluster,
        update_type |-> u.update_type]

\* the None arm taking the id before the counter is incremented
IngestCreateStale(d, content_tokens) ==
    LET cluster_id == d.clusters_counter
        cluster == LogClusterNew(content_tokens, cluster_id)
    IN [drain |-> [d EXCEPT !.clusters_counter = cluster_id + 1,
                            !.id_to_cluster = [k \in DOMAIN @ \cup {cluster_id} |->
                                                  IF k = cluster_id THEN cluster ELSE @[k]],
                            !.root_node = add_seq_to_prefix_tree(@, cluster,
                                              d.log_cluster_depth, d.max_children,
                                              d.parametrize_numeric_tokens)],
        cluster |-> cluster,
        update_type |-> "Created"]

\* the None arm of Drain::add_log_message
IngestCreate(d, content_tokens) ==
    LET cluster_id == d.clusters_counter + 1
        cluster == LogClusterNew(content_tokens, cluster_id)
    IN [drain |-> [d EXCEPT !.clusters_counter = cluster_id,
                            !.id_to_cluster = @ @@ (cluster_id :> cluster),
                            !.root_node = add_seq_to_prefix_tree(@, cluster,
                                              d.log_cluster_depth, d.max_children,
                                              d.parametrize_numeric_tokens)],
        cluster |-> cluster,
        update_type |-> "Created"]

\* add_log_message evicting the oldest cluster when max_clusters is reached
drain_add_log_message_evict(d, content) ==
    LET content_tokens == get_content_as_tokens(content)
        match_result == IngestSearch(d, content_tokens)
        ids == DOMAIN d.id_to_cluster
        full == d.max_clusters # None /\ ids # {} /\ Cardinality(ids) >= d.max_clusters[1]
        oldest == CHOOSE k \in ids : \A j \in ids : k <= j
        evicted == [d EXCEPT !.id_to_cluster = [k \in ids \ {oldest} |-> @[k]],
                             !.root_node = [p \in DOMAIN @ |->
                                               SelectSeq(@[p], LAMBDA k : k # oldest)]]
    IN IF match_result # None
       THEN IngestMatched(d, match_result[1], content_tokens)
       ELSE IngestCreate(IF full THEN evicted ELSE d, content_tokens)

\* Drain::add_log_message: [drain, cluster, update_type]
drain_add_log_message(d, content) ==
    LET content_tokens == get_content_as_tokens(content)
        match_result == IngestSearch(d, content_tokens)
    IN IF match_result # None
       THEN IngestMatched(d, match_result[1], content_tokens)
       ELSE IngestCreate(d, content_tokens)

\* ------------------------------------------------------------ match_cluster
Strategies == {"Full", "Fast", "Fallback"}

RECURSIVE Perms(_)
Perms(S) ==
    IF S = {} THEN {<<>>}
    ELSE UNION { { <<x>> \o q : q \in Perms(S \ {x}) } : x \in S }

\* Node::children: the HashMap's values in any order, then the wildcard child
children(t, p) ==
    { [i \in 1..Len(o) |-> Append(p, ChildEdge(o[i]))]
          \o (IF has_wildcard(t, p) THEN <<Append(p, WildcardEdge)>> ELSE <<>>)
      : o \in Perms(ChildKeys(t, p)) }

\* append_clusters_recursive: every list the traversal can produce
RECURSIVE append_clusters_recursive(_, _)
RECURSIVE AppendChildren(_, _)
append_clusters_recursive(t, p) ==
    { t[p] \o rest : rest \in UNION { AppendChildren(t, kids) : kids \in children(t, p) } }

AppendChildren(t, kids) ==
    IF kids = <<>> THEN {<<>>}
    ELSE { a \o b : a \in append_clusters_recursive(t, Head(kids)),
                    b \in AppendChildren(t, Tail(kids)) }

\* Drain::get_clusters_ids_for_seq_len: every list it can return
get_clusters_ids_for_seq_len(d, seq_len) ==
    LET cur_node == get(d.root_node, <<>>, to_string(seq_len))
    IN IF cur_node = None THEN {<<>>}
       ELSE append_clusters_recursive(d.root_node, cur_node[1])

required_sim_th == <<1, 1>>

\* the full_search closure of Drain::match_cluster, for one traversal order
full_search(d, all_ids, content_tokens) ==
    LET id == fast_match(d.id_to_cluster, all_ids, content_tokens, required_sim_th, TRUE,
                         token_template_check)
    IN IF id # None /\ id[1] \in DOMAIN d.id_to_cluster
       THEN Some(d.id_to_cluster[id[1]]) ELSE None

\* the tree_search call of the Fast and Fallback arms of Drain::match_cluster
MatchSearch(d, content_tokens) ==
    LET id == tree_search(d.root_node, d.id_to_cluster, content_tokens, required_sim_th,
                          TRUE, d.log_cluster_depth, token_template)
    IN IF id # None /\ id[1] \in DOMAIN d.id_to_cluster
       THEN Some(d.id_to_cluster[id[1]]) ELSE None

\* a lookup whose Fallback arm is the full search alone
drain_match_cluster_full(d, content, strategy) ==
    LET content_tokens == get_content_as_tokens(content)
        full == { full_search(d, all_ids, content_tokens) :
                      all_ids \in get_clusters_ids_for_seq_len(d, Len(content_tokens)) }
        fast == MatchSearch(d, content_tokens)
    IN CASE strategy = "Full" -> full
         [] strategy = "Fast" -> {fast}
         [] strategy = "Fallback" -> full

\* Drain::match_cluster: every cluster option it can return
drain_match_cluster(d, content, strategy) ==
    LET content_tokens == get_content_as_tokens(content)
        full == { full_search(d, all_ids, content_tokens) :
                      all_ids \in get_clusters_ids_for_seq_len(d, Len(content_tokens)) }
        fast == MatchSearch(d, content_tokens)
    IN CASE strategy = "Full" -> full
         [] strategy = "Fast" -> {fast}
         [] strategy = "Fallback" -> IF fast # None THEN {fast} ELSE full

\* ------------------------------------------------------------ TemplateMiner
snapshot_interval_minutes == 1

\* no masking_instructions are configured; a rule is [pattern, mask_with]
masking_instructions == <<>>

\* the pieces \w matches
IsWord(c) == c \notin {SPACE, "<", ">"}

\* the length of the longest run of digits of s that starts at i
RECURSIVE DigitRun(_, _)
DigitRun(s, i) ==
    IF i > Len(s) \/ s[i] \notin Digits THEN 0 ELSE 1 + DigitRun(s, i + 1)

\* the text the groups of a pattern (p1)(p2) match, one after the other
RECURSIVE Concat(_)
Concat(parts) == IF parts = <<>> THEN <<>> ELSE Head(parts) \o Concat(Tail(parts))

\* the length of the match of a compiled pattern [kind, parts] that starts at position
\* i of s, 0 when there is none.  The patterns are: \d+; \b\d+, which looks at the
\* text before the match; literal text p ("lit") and (p1)(p2) with capture groups
\* ("groups"), whose match is the text of the parts one after the other
MatchLen(pattern, s, i) ==
    IF pattern.kind = "digits" THEN DigitRun(s, i)
    ELSE IF pattern.kind = "bdigits"
    THEN (IF i = 1 \/ ~IsWord(s[i - 1]) THEN DigitRun(s, i) ELSE 0)
    ELSE (IF /\ i + Len(Concat(pattern.parts)) - 1 <= Len(s)
             /\ SubSeq(s, i, i + Len(Concat(pattern.parts)) - 1) = Concat(pattern.parts)
          THEN Len(Concat(pattern.parts)) ELSE 0)

\* a replacement of the first match only
RECURSIVE ReplaceFirstFrom(_, _, _, _)
ReplaceFirstFrom(pattern, s, i, replacement) ==
    IF i > Len(s) THEN <<>>
    ELSE LET n == MatchLen(pattern, s, i)
         IN IF n > 0 THEN replacement \o SubSeq(s, i + n, Len(s))
            ELSE <<s[i]>> \o ReplaceFirstFrom(pattern, s, i + 1, replacement)

\* Regex::replace_all: the matches from left to right, none overlapping the one before
RECURSIVE ReplaceAllFrom(_, _, _, _)
ReplaceAllFrom(pattern, s, i, replacement) ==
    IF i > Len(s) THEN <<>>
    ELSE LET n == MatchLen(pattern, s, i)
         IN IF n > 0 THEN replacement \o ReplaceAllFrom(pattern, s, i + n, replacement)
            ELSE <<s[i]>> \o ReplaceAllFrom(pattern, s, i + 1, replacement)

replace_all(pattern, s, replacement) == ReplaceAllFrom(pattern, s, 1, replacement)

\* a rule that replaces the first capture group of the match only
MaskingInstructionMaskGroup(mi, content, mask_prefix, mask_suffix) ==
    IF mi.pattern.kind = "groups"
    THEN replace_all([kind |-> "lit", parts |-> <<Concat(mi.pattern.parts)>>], content,
                     mask_prefix \o mi.mask_with \o mask_suffix
                         \o Concat(Tail(mi.pattern.parts)))
    ELSE replace_all(mi.pattern, content, mask_prefix \o mi.mask_with \o mask_suffix)

\* MaskingInstruction::mask
MaskingInstructionMask(mi, content, mask_prefix, mask_suffix) ==
    replace_all(mi.pattern, content, mask_prefix \o mi.mask_with \o mask_suffix)

\* LogMasker::mask
RECURSIVE MaskLoop(_, _)
MaskLoop(masked, instructions) ==
    IF instructions = <<>> THEN masked
    ELSE MaskLoop(MaskingInstructionMask(Head(instructions), masked, token_prefix,
                                         token_suffix),
                  Tail(instructions))

mask(content) == MaskLoop(content, masking_instructions)

\* should_save_state that does not look at the time of the last save
should_save_state_dirty(dirty) == dirty

\* TemplateMiner::should_save_state
should_save_state(dirty) ==
    now - last_save_time >= snapshot_interval_minutes * 60 /\ dirty

\* the serialized Drain: the fields that are not #[serde(skip)]
Serialize(d) ==
    [log_cluster_depth |-> d.log_cluster_depth,
     sim_th |-> d.sim_th,
     max_children |-> d.max_children,
     parametrize_numeric_tokens |-> d.parametrize_numeric_tokens,
     root_node |-> d.root_node,
     id_to_cluster |-> d.id_to_cluster,
     clusters_counter |-> d.clusters_counter]

\* save_state with a failed save advancing last_save_time all the same
save_state_advance(d, save_ok, old_saved, old_last_save_time) ==
    [saved |-> IF save_ok THEN Some(Serialize(d)) ELSE old_saved,
     last_save_time |-> now,
     result |-> IF save_ok THEN "Ok" ELSE "Err"]

\* TemplateMiner::save_state with a handler attached; save_ok is whether serializing
\* and the handler's save_state succeed
save_state(d, save_ok, old_saved, old_last_save_time) ==
    [saved |-> IF save_ok THEN Some(Serialize(d)) ELSE old_saved,
     last_save_time |-> IF save_ok THEN now ELSE old_last_save_time,
     result |-> IF save_ok THEN "Ok" ELSE "Err"]

NoRet == [cluster |-> None, update_type |-> "NoCall"]

NoOut == [op |-> "NoCall", arg |-> <<>>, tokens |-> <<>>, result |-> None]

\* -------------------------------------------------------- extract_parameters
\* regex_syntax::is_meta_character, on the pieces that occur
MetaCharacters == {"\\", ".", "+", "*", "?", "(", ")", "|", "[", "]", "{", "}", "^", "$",
                   "#", "&", "-", "~"}

\* regex::escape
RECURSIVE escape(_)
escape(s) ==
    IF s = <<>> THEN <<>>
    ELSE (IF Head(s) \in MetaCharacters THEN <<"\\", Head(s)>> ELSE <<Head(s)>>)
         \o escape(Tail(s))

\* the index of the first occurrence of pat in s, 0 if there is none
FirstIndex(s, pat) ==
    LET hits == { i \in 1..(Len(s) - Len(pat) + 1) : SubSeq(s, i, i + Len(pat) - 1) = pat }
    IN IF pat = <<>> \/ hits = {} THEN 0
       ELSE CHOOSE i \in hits : \A j \in hits : i <= j

\* str::replacen(pat, to, 1)
replacen(s, pat, to) ==
    LET i == FirstIndex(s, pat)
    IN IF i = 0 THEN s
       ELSE SubSeq(s, 1, i - 1) \o to \o SubSeq(s, i + Len(pat), Len(s))

\* a capture group (?P<p_k>.+?) is one piece of the regex
CaptureGroup(k) == [group |-> k]

IsGroup(c) == c \notin STRING

\* LogMasker::mask_names
mask_names == { masking_instructions[i].mask_with : i \in 1..Len(masking_instructions) }

\* the loop over one mask name in get_template_parameter_extraction_regex:
\* [regex, counter, param_map]; every pass takes a fresh group name, the last one unused
RECURSIVE ReplaceMask(_, _, _, _)
ReplaceMask(template_regex, search_str, mask_name, st) ==
    LET rep == <<CaptureGroup(st.counter)>>
        new == replacen(template_regex, search_str, rep)
        st2 == [counter |-> st.counter + 1,
                param_map |-> st.param_map @@ (st.counter :> mask_name)]
    IN IF new = template_regex THEN [regex |-> template_regex] @@ st2
       ELSE ReplaceMask(new, search_str, mask_name, st2)

RECURSIVE ReplaceMasks(_, _, _)
ReplaceMasks(template_regex, names, st) ==
    IF names = <<>> THEN [regex |-> template_regex] @@ st
    ELSE LET search_str == escape(token_prefix) \o escape(Head(names)) \o escape(token_suffix)
             r == ReplaceMask(template_regex, search_str, Head(names), st)
         IN ReplaceMasks(r.regex, Tail(names),
                         [counter |-> r.counter, param_map |-> r.param_map])

\* the replacement of "\\ " by "\\s+": an escaped space becomes a whitespace run
RECURSIVE ReplaceEscapedSpaces(_)
ReplaceEscapedSpaces(re) ==
    IF re = <<>> THEN <<>>
    ELSE IF Len(re) >= 2 /\ re[1] = "\\" /\ re[2] = SPACE
         THEN <<"\\s+">> \o ReplaceEscapedSpaces(SubSeq(re, 3, Len(re)))
    ELSE IF Len(re) >= 2 /\ re[1] = "\\"
         THEN <<re[1], re[2]>> \o ReplaceEscapedSpaces(SubSeq(re, 3, Len(re)))
    ELSE <<Head(re)>> \o ReplaceEscapedSpaces(Tail(re))

\* TemplateMiner::get_template_parameter_extraction_regex, for one order of the
\* HashSet of mask names: [regex, param_map]
get_template_parameter_extraction_regex(log_template, exact_matching, names) ==
    LET r == ReplaceMasks(escape(log_template), names,
                          [counter |-> 0, param_map |-> <<>>])
    IN [regex |-> ReplaceEscapedSpaces(r.regex), param_map |-> r.param_map]

\* Regex::captures of ^regex$ on s: None, or Some(group -> captured text).  A group
\* is .+?, the shortest non-empty run that lets the rest match
RECURSIVE Captures(_, _)
Captures(re, s) ==
    IF re = <<>> THEN (IF s = <<>> THEN Some(<<>>) ELSE None)
    ELSE IF IsGroup(Head(re))
         THEN LET ok == { k \in 1..Len(s) :
                              Captures(Tail(re), SubSeq(s, k + 1, Len(s))) # None }
              IN IF ok = {} THEN None
                 ELSE LET k == CHOOSE x \in ok : \A y \in ok : x <= y
                          rest == Captures(Tail(re), SubSeq(s, k + 1, Len(s)))[1]
                      IN Some((Head(re).group :> SubSeq(s, 1, k)) @@ rest)
    ELSE IF Head(re) = "\\s+"
         THEN LET ok == { k \in 1..Len(s) :
                              /\ \A j \in 1..k : IsWhitespace(s[j])
                              /\ Captures(Tail(re), SubSeq(s, k + 1, Len(s))) # None }
              IN IF ok = {} THEN None
                 ELSE LET k == CHOOSE x \in ok : \A y \in ok : x >= y
                      IN Captures(Tail(re), SubSeq(s, k + 1, Len(s)))
    ELSE IF Head(re) = "\\"
         THEN (IF Len(re) >= 2 /\ s # <<>> /\ Head(s) = re[2]
               THEN Captures(SubSeq(re, 3, Len(re)), Tail(s)) ELSE None)
    ELSE IF s # <<>> /\ Head(s) = Head(re) THEN Captures(Tail(re), Tail(s))
    ELSE None

\* TemplateMiner::extract_parameters: every Option<Vec<(value, mask_name)>> it can
\* return (the mask names and the param_map are hashed, so their orders are free)
extract_parameters(log_template, log_message, exact_matching) ==
    LET normalized == ReplaceDelimiters(log_message, extra_delimiters)
    IN UNION {
         LET rx == get_template_parameter_extraction_regex(log_template, exact_matching,
                                                           names)
             captures == Captures(rx.regex, normalized)
         IN IF captures = None THEN {None}
            ELSE { Some([i \in 1..Len(o) |->
                            [value |-> captures[1][o[i]], mask_name |-> rx.param_map[o[i]]]])
                   : o \in Perms(DOMAIN rx.param_map \cap DOMAIN captures[1]) }
         : names \in Perms(mask_names \cup {<<"*">>}) }

\* LogCluster::get_template
get_template(cluster) == Join(cluster.tokens)

\* ----------------------------------------------------------------- actions
\* <<depth, max_children>>; with depth 3 nothing descends and max_children is unused
ConfigChoices == { <<3, 3>>, <<4, 2>>, <<4, 3>> }

SimThChoices == { <<2, 5>> }

\* TemplateMiner::new with Drain::new (depth < 3 panics), no persistence handler
InitMiner ==
    /\ sim_th \in SimThChoices
    /\ parametrize_numeric_tokens = TRUE
    /\ root_node = (<<>> :> NodeNew)
    /\ id_to_cluster = <<>>
    /\ clusters_counter = 0
    /\ token_template_counter = 0
    /\ now = 0
    /\ last_save_time = now
    /\ state_dirty = FALSE
    /\ saved = None
    /\ ret = NoRet
    /\ out = NoOut
    /\ last_tokens = <<>>
    /\ absorbed = <<>>
    /\ created_count = 0
    /\ n_ingest = 0
    /\ save_call = "NoCall"
    /\ original = None
    /\ loaded = FALSE
    /\ engines = <<>>
    /\ CLUSTER_MAP = <<>>
    /\ construction = [result |-> "Ok", depth |-> log_cluster_depth, instructions |-> <<>>]

Init ==
    /\ \E c \in ConfigChoices : log_cluster_depth = c[1] /\ max_children = c[2]
    /\ ingest_limit = MaxIngests
    /\ persistence_handler = FALSE
    /\ max_clusters = None
    /\ InitMiner

\* TemplateMiner::add_log_message
AddLogMessage(content) ==
    /\ n_ingest < ingest_limit
    /\ LET masked_content == mask(content)
           r == drain_add_log_message(Drain, masked_content)
           dirty == state_dirty \/ r.update_type # "None"
           saving == persistence_handler /\ should_save_state(dirty)
           id == r.cluster.cluster_id
       IN /\ root_node' = r.drain.root_node
          /\ id_to_cluster' = r.drain.id_to_cluster
          /\ clusters_counter' = r.drain.clusters_counter
          /\ token_template_counter' = r.drain.token_template_counter
          /\ state_dirty' = dirty
          /\ \E save_ok \in (IF saving THEN BOOLEAN ELSE {TRUE}) :
                LET sv == save_state(r.drain, save_ok, saved, last_save_time)
                IN /\ saved' = IF saving THEN sv.saved ELSE saved
                   /\ last_save_time' = IF saving THEN sv.last_save_time
                                        ELSE last_save_time
                   /\ save_call' = IF saving THEN sv.result ELSE "NoCall"
                   /\ original' =
                         IF loaded /\ original # None
                         THEN Some(drain_add_log_message(original[1], masked_content).drain)
                         ELSE IF saving /\ save_ok THEN Some(r.drain)
                         ELSE original
          /\ ret' = [cluster |-> Some(r.cluster), update_type |-> r.update_type]
          /\ out' = NoOut
          /\ last_tokens' = get_content_as_tokens(masked_content)
          /\ absorbed' = IF id \in DOMAIN absorbed
                         THEN [absorbed EXCEPT ![id] = Append(@, last_tokens')]
                         ELSE absorbed @@ (id :> <<last_tokens'>>)
          /\ created_count' = created_count + (IF r.update_type = "Created" THEN 1 ELSE 0)
          /\ n_ingest' = n_ingest + 1
    /\ UNCHANGED <<registryVars, cfgVars, persistence_handler, now, ingest_limit, loaded>>

\* match_cluster counting the lookup in the size of the cluster it finds
MatchClusterCounts(content, strategy) ==
    /\ LET masked_content == mask(content)
       IN \E c \in drain_match_cluster(Drain, masked_content, strategy) :
             /\ out' = [op |-> "match_cluster",
                        arg |-> strategy,
                        tokens |-> get_content_as_tokens(masked_content),
                        result |-> c]
             /\ id_to_cluster' = IF c = None THEN id_to_cluster
                                 ELSE [id_to_cluster EXCEPT ![c[1].cluster_id].size = @ + 1]
    /\ UNCHANGED <<registryVars, cfgVars, root_node, clusters_counter, token_template_counter,
                   minerVars, now, ret, histVars>>

\* TemplateMiner::match_cluster
MatchCluster(content, strategy) ==
    /\ LET masked_content == mask(content)
       IN \E c \in drain_match_cluster(Drain, masked_content, strategy) :
             out' = [op |-> "match_cluster",
                     arg |-> strategy,
                     tokens |-> get_content_as_tokens(masked_content),
                     result |-> c]
    /\ UNCHANGED <<registryVars, cfgVars, drainVars, minerVars, now, ret, histVars>>

\* TemplateMiner::extract_parameters
ExtractParameters(log_template, log_message, exact_matching) ==
    /\ \E r \in extract_parameters(log_template, log_message, exact_matching) :
          out' = [op |-> "extract_parameters",
                  arg |-> <<log_template, exact_matching>>,
                  tokens |-> get_content_as_tokens(log_message),
                  result |-> r]
    /\ UNCHANGED <<registryVars, cfgVars, drainVars, minerVars, now, ret, histVars>>

\* lookups are made for the line just ingested, parameters are extracted from it with
\* the template of the cluster it was put in
Next ==
    \/ \E content \in Contents : AddLogMessage(content)
    \/ \E strategy \in Strategies : MatchCluster(Join(last_tokens), strategy)
    \/ /\ ret.cluster # None
       /\ \E exact_matching \in BOOLEAN :
             ExtractParameters(get_template(ret.cluster[1]), Join(last_tokens),
                               exact_matching)

Spec == Init /\ [][Next]_vars

\* longer runs of one configuration: depth 4, max_children 3
InitDeep ==
    /\ log_cluster_depth = 4
    /\ max_children = 3
    /\ ingest_limit = MaxIngestsDeep
    /\ persistence_handler = FALSE
    /\ max_clusters = None
    /\ InitMiner

NextDeep ==
    \/ \E content \in Contents : AddLogMessage(content)
    \/ \E strategy \in Strategies : MatchCluster(Join(last_tokens), strategy)

SpecDeep == InitDeep /\ [][NextDeep]_vars

\* the lines of test_drain_max_children, a fourth single token and two longer lines
ContentsMaxChildren ==
    { <<"A">>, <<"B">>, <<"C">>, <<"D">>, <<"A", SPACE, "x">>, <<"B", SPACE, "y">> }

\* the engine of test_drain_max_children: depth 4, sim_th 0.4, max_children 2
InitMaxChildren ==
    /\ log_cluster_depth = 4
    /\ max_children = 2
    /\ ingest_limit = MaxIngests
    /\ persistence_handler = FALSE
    /\ max_clusters = None
    /\ InitMiner

NextMaxChildren == \E content \in ContentsMaxChildren : AddLogMessage(content)

SpecMaxChildren == InitMaxChildren /\ [][NextMaxChildren]_vars

\* ---------------------------------------------------------------- persistence
\* TemplateMiner::load_state: the state the handler returns is read and dropped (the
\* deserialization into self.drain is commented out), a handler error is only logged
load_state(d, state) == d

\* Drain::new
DrainNew(depth, th, maxc, maxclusters, parametrize) ==
    [log_cluster_depth |-> depth,
     sim_th |-> th,
     max_children |-> maxc,
     max_clusters |-> maxclusters,
     parametrize_numeric_tokens |-> parametrize,
     root_node |-> (<<>> :> NodeNew),
     id_to_cluster |-> <<>>,
     clusters_counter |-> 0,
     token_template_counter |-> 0]

\* the seconds the clock advances by between two calls
TickSteps == {30, 60}

ContentsPersist == { <<"a", SPACE, "a">>, <<"a", SPACE, "b">>, <<"b">> }

\* SystemTime::now moving on
Tick ==
    /\ \E d \in TickSteps :
          /\ now + d <= MaxTicks * 30
          /\ now' = now + d
    /\ UNCHANGED <<registryVars, cfgVars, drainVars, minerVars, ret, out, histVars>>

\* TemplateMiner::save_state called by the application
SaveState ==
    /\ persistence_handler
    /\ \E save_ok \in BOOLEAN :
          LET sv == save_state(Drain, save_ok, saved, last_save_time)
          IN /\ saved' = sv.saved
             /\ last_save_time' = sv.last_save_time
             /\ original' = IF ~loaded /\ save_ok THEN Some(Drain) ELSE original
    /\ save_call' = "NoCall"
    /\ UNCHANGED <<registryVars, cfgVars, drainVars, persistence_handler, state_dirty, now, ret, out,
                   last_tokens, absorbed, created_count, n_ingest, ingest_limit, loaded>>

\* TemplateMiner::new over the handler of the miner before: a new process that loads
\* the saved state
Restart ==
    /\ persistence_handler
    /\ ~loaded
    /\ LET fresh == DrainNew(log_cluster_depth, sim_th, max_children, max_clusters,
                             parametrize_numeric_tokens)
           d == IF saved = None THEN fresh ELSE load_state(fresh, saved[1])
       IN /\ root_node' = d.root_node
          /\ id_to_cluster' = d.id_to_cluster
          /\ clusters_counter' = d.clusters_counter
          /\ token_template_counter' = d.token_template_counter
    /\ last_save_time' = now
    /\ state_dirty' = FALSE
    /\ ret' = NoRet
    /\ out' = NoOut
    /\ last_tokens' = <<>>
    /\ absorbed' = <<>>
    /\ created_count' = 0
    /\ n_ingest' = 0
    /\ save_call' = "NoCall"
    /\ loaded' = TRUE
    /\ UNCHANGED <<registryVars, cfgVars, persistence_handler, now, saved, ingest_limit, original>>

\* a miner with a persistence handler whose store is empty
InitPersist ==
    /\ log_cluster_depth = 4
    /\ max_children = 3
    /\ ingest_limit = MaxIngests
    /\ persistence_handler = TRUE
    /\ max_clusters = None
    /\ InitMiner

NextPersist ==
    \/ \E content \in ContentsPersist : AddLogMessage(content)
    \/ Tick
    \/ SaveState
    \/ Restart

SpecPersist == InitPersist /\ [][NextPersist]_vars

\* -------------------------------------------------------------------- masker
\* the rules of the maskers: \d+ as in test_masking, \b\d+, a literal, a pattern
\* with two capture groups as in test_cmd_masking, and a literal that matches across
\* the end of a placeholder
MaskRules ==
    { [pattern |-> [kind |-> "digits", parts |-> <<>>], mask_with |-> <<"NUM">>],
      [pattern |-> [kind |-> "bdigits", parts |-> <<>>], mask_with |-> <<"NUM">>],
      [pattern |-> [kind |-> "lit", parts |-> << <<"b">> >>], mask_with |-> <<"B">>],
      [pattern |-> [kind |-> "groups", parts |-> << <<"a">>, <<"b">> >>],
       mask_with |-> <<"CMD">>],
      [pattern |-> [kind |-> "lit", parts |-> << <<">", "1">> >>], mask_with |-> <<"Z">>] }

\* the rule lists: up to MaxRules different rules in any order
MaskRuleLists ==
    UNION { { l \in [1..n -> MaskRules] : \A i, j \in 1..n : l[i] = l[j] => i = j }
            : n \in 0..MaxRules }

MaskPieces == {"a", "b", "1"}

MaskContents == UNION { [1..n -> MaskPieces] : n \in 0..MaxMaskLen }

\* LogMasker::new(instructions, "<", ">").mask(content), the first call of a run;
\* out.tokens is the text given
Mask(instructions, content) ==
    /\ out.op = "NoCall"
    /\ out' = [op |-> "mask",
               arg |-> instructions,
               tokens |-> content,
               result |-> Some(MaskLoop(content, instructions))]
    /\ UNCHANGED <<registryVars, cfgVars, drainVars, minerVars, now, ret, histVars>>

\* the same masker's mask called on the text it has just returned
MaskAgain ==
    /\ out.op = "mask"
    /\ out' = [op |-> "mask_mask",
               arg |-> out.arg,
               tokens |-> out.result[1],
               result |-> Some(MaskLoop(out.result[1], out.arg))]
    /\ UNCHANGED <<registryVars, cfgVars, drainVars, minerVars, now, ret, histVars>>

InitMask ==
    /\ log_cluster_depth = 4
    /\ max_children = 3
    /\ ingest_limit = MaxIngests
    /\ persistence_handler = FALSE
    /\ max_clusters = None
    /\ InitMiner

NextMask ==
    \/ \E instructions \in MaskRuleLists : \E content \in MaskContents :
          Mask(instructions, content)
    \/ MaskAgain

SpecMask == InitMask /\ [][NextMask]_vars

\* ------------------------------------------------------ process-wide registry
\* the for loop of Node::add_cluster: [tree, attached]; a numeric token without a
\* child goes on (continue) to the next token at the same depth
RECURSIVE AddClusterLoop(_, _, _, _, _, _, _, _, _)
AddClusterLoop(t, cur_node, tokens, cluster_id, i, current_depth, max_node_depth, maxc, parametrize) ==
    IF i > Len(tokens) THEN [tree |-> t, attached |-> FALSE]
    ELSE IF current_depth >= max_node_depth \/ current_depth >= Len(tokens)
         THEN [tree |-> PushCluster(t, cur_node, cluster_id), attached |-> TRUE]
    ELSE IF has_child(t, cur_node, tokens[i])
         THEN AddClusterLoop(t, Append(cur_node, ChildEdge(tokens[i])), tokens, cluster_id,
                             i + 1, current_depth + 1, max_node_depth, maxc, parametrize)
    ELSE LET edge == InsertEdge(t, cur_node, tokens[i], maxc, parametrize)
             next == Append(cur_node, edge)
             t2 == IF next \in DOMAIN t THEN t ELSE t @@ (next :> NodeNew)
             has_nums == parametrize /\ has_numbers(tokens[i])
         IN AddClusterLoop(t2, next, tokens, cluster_id, i + 1,
                           IF has_nums THEN current_depth ELSE current_depth + 1,
                           max_node_depth, maxc, parametrize)

\* Node::add_cluster on the node at path self, for the engine owner:
\* [tree, registry, attached]
add_cluster(t, self, registry, owner, cluster_id, tokens, depth, maxc, parametrize) ==
    LET registered == [k \in DOMAIN registry \cup {cluster_id} |->
                          IF k = cluster_id THEN owner ELSE registry[k]]
        r == IF tokens = <<>>
             THEN [tree |-> PushCluster(t, self, cluster_id), attached |-> TRUE]
             ELSE AddClusterLoop(t, self, tokens, cluster_id, 1, 1, depth - 2, maxc,
                                 parametrize)
    IN [tree |-> r.tree, registry |-> registered, attached |-> r.attached]

\* LogCluster::get_cluster_by_id: the engine whose cluster the id is registered for
get_cluster_by_id(id) ==
    IF id \in DOMAIN CLUSTER_MAP THEN Some(CLUSTER_MAP[id]) ELSE None

Engines == {"A", "B"}

ContentsRegistry == { <<"a">>, <<"b">>, <<"d", "1", SPACE, "a">> }

\* the engine's add_log_message: tokenize, search and generalize as in
\* Drain::add_log_message, else take the next id of the engine's own counter and insert
\* the new cluster with add_cluster below the length-partition node
engine_add_log_message(d, owner, registry, content) ==
    LET content_tokens == get_content_as_tokens(content)
        found == IngestSearch(d, content_tokens)
        cluster_id == d.clusters_counter + 1
        cluster == LogClusterNew(content_tokens, cluster_id)
        key == to_string(Len(content_tokens))
        a == add_cluster(get_or_insert_child(d.root_node, <<>>, key), <<ChildEdge(key)>>,
                         registry, owner, cluster_id, content_tokens,
                         d.log_cluster_depth, d.max_children,
                         d.parametrize_numeric_tokens)
    IN IF found # None
       THEN [drain |-> IngestMatched(d, found[1], content_tokens).drain,
             registry |-> registry]
       ELSE [drain |-> [d EXCEPT !.clusters_counter = cluster_id,
                                 !.id_to_cluster = @ @@ (cluster_id :> cluster),
                                 !.root_node = a.tree],
             registry |-> a.registry]

\* an ingest on one of the engines of the process
EngineIngest(e, content) ==
    /\ engines[e].n < ingest_limit
    /\ LET r == engine_add_log_message(engines[e].drain, e, CLUSTER_MAP, content)
       IN /\ engines' = [engines EXCEPT ![e] = [drain |-> r.drain, n |-> @.n + 1]]
          /\ CLUSTER_MAP' = r.registry
    /\ UNCHANGED <<cfgVars, drainVars, minerVars, now, ret, out, histVars>>

\* two engines in one process, with an empty registry
InitRegistry ==
    /\ log_cluster_depth = 4
    /\ max_children = 3
    /\ ingest_limit = MaxIngests
    /\ persistence_handler = FALSE
    /\ max_clusters = None
    /\ sim_th \in SimThChoices
    /\ parametrize_numeric_tokens = TRUE
    /\ root_node = (<<>> :> NodeNew)
    /\ id_to_cluster = <<>>
    /\ clusters_counter = 0
    /\ token_template_counter = 0
    /\ now = 0
    /\ last_save_time = now
    /\ state_dirty = FALSE
    /\ saved = None
    /\ ret = NoRet
    /\ out = NoOut
    /\ last_tokens = <<>>
    /\ absorbed = <<>>
    /\ created_count = 0
    /\ n_ingest = 0
    /\ save_call = "NoCall"
    /\ original = None
    /\ loaded = FALSE
    /\ engines = [e \in Engines |->
                     [drain |-> DrainNew(4, <<2, 5>>, 3, None, TRUE), n |-> 0]]
    /\ CLUSTER_MAP = <<>>
    /\ construction = [result |-> "Ok", depth |-> 4, instructions |-> <<>>]

NextRegistry == \E e \in Engines : \E content \in ContentsRegistry : EngineIngest(e, content)

SpecRegistry == InitRegistry /\ [][NextRegistry]_vars

\* ------------------------------------------------- lookups of arbitrary lines
\* lines with a word that begins with the configured token_template
ContentsMatch ==
    { <<"a", SPACE, "a">>, <<"a", SPACE, "b">>, <<"b", SPACE, "a">>,
      <<"TOKEN", "x", SPACE, "a">>, <<"a">> }

\* Drain::new with depth 3, max_children 3
InitMatch ==
    /\ log_cluster_depth = 3
    /\ max_children = 3
    /\ ingest_limit = MaxIngests
    /\ persistence_handler = FALSE
    /\ max_clusters = None
    /\ InitMiner

\* any line is ingested, any line is looked up under any strategy
NextMatch ==
    \/ \E content \in ContentsMatch : AddLogMessage(content)
    \/ \E content \in ContentsMatch : \E strategy \in Strategies :
          MatchCluster(content, strategy)

SpecMatch == InitMatch /\ [][NextMatch]_vars


\* --------------------------------------------------------------- construction
\* Regex::new: None for a pattern that does not compile
RegexNew(pattern) == IF pattern.kind = "invalid" THEN None ELSE Some(pattern)

\* MaskingInstruction::new panics when Regex::new fails
MaskingInstructionNewPanics(config) == RegexNew(config.pattern) = None

\* the depth check letting depth 2 through
DrainNewPanicsBelowTwo(depth) == depth < 2

\* Drain::new panics when depth < 3
DrainNewPanics(depth) == depth < 3

DepthChoices == 0..MaxDepth

\* the masking_instructions of a configuration: none, a pattern that does not compile,
\* and one that does followed by one that does not
InstructionChoices ==
    { <<>>,
      << [pattern |-> [kind |-> "invalid", parts |-> <<>>], mask_with |-> <<"NUM">>] >>,
      << [pattern |-> [kind |-> "digits", parts |-> <<>>], mask_with |-> <<"NUM">>],
         [pattern |-> [kind |-> "invalid", parts |-> <<>>], mask_with |-> <<"ID">>] >> }

\* TemplateMiner::new: Drain::new, then MaskingInstruction::new for every rule; a panic
\* leaves no miner, otherwise the miner starts with an empty engine of the given depth
TemplateMinerNew(depth, instructions) ==
    /\ construction.result = "Unbuilt"
    /\ LET panics == \/ DrainNewPanics(depth)
                     \/ \E i \in 1..Len(instructions) :
                           MaskingInstructionNewPanics(instructions[i])
       IN /\ construction' = [result |-> IF panics THEN "Panic" ELSE "Ok",
                              depth |-> depth,
                              instructions |-> instructions]
          /\ log_cluster_depth' = IF panics THEN log_cluster_depth ELSE depth
    /\ UNCHANGED <<max_children, sim_th, parametrize_numeric_tokens, max_clusters,
                   drainVars, minerVars, now, ret, out, histVars, registryVars>>

\* before TemplateMiner::new is called: no engine, the variables of the engine hold what
\* Drain::new will give them
InitNew ==
    /\ log_cluster_depth = 0
    /\ max_children = 3
    /\ ingest_limit = MaxIngests
    /\ persistence_handler = FALSE
    /\ max_clusters = None
    /\ sim_th \in SimThChoices
    /\ parametrize_numeric_tokens = TRUE
    /\ root_node = (<<>> :> NodeNew)
    /\ id_to_cluster = <<>>
    /\ clusters_counter = 0
    /\ token_template_counter = 0
    /\ now = 0
    /\ last_save_time = now
    /\ state_dirty = FALSE
    /\ saved = None
    /\ ret = NoRet
    /\ out = NoOut
    /\ last_tokens = <<>>
    /\ absorbed = <<>>
    /\ created_count = 0
    /\ n_ingest = 0
    /\ save_call = "NoCall"
    /\ original = None
    /\ loaded = FALSE
    /\ engines = <<>>
    /\ CLUSTER_MAP = <<>>
    /\ construction = [result |-> "Unbuilt", depth |-> 0, instructions |-> <<>>]

\* the miner is constructed once; only a constructed miner takes calls
NextNew ==
    \/ \E depth \in DepthChoices : \E instructions \in InstructionChoices :
          TemplateMinerNew(depth, instructions)
    \/ /\ construction.result = "Ok"
       /\ \E content \in ContentsMatch : AddLogMessage(content)

SpecNew == InitNew /\ [][NextNew]_vars


\* ---------------------------------------------------------------- max_clusters
\* drain_max_clusters: unset, or a number that the clusters of a run exceed
MaxClustersChoices == {None} \cup { Some(k) : k \in 0..MaxMaxClusters }

\* Drain::new with depth 4, max_children 3 and any max_clusters
InitMaxClusters ==
    /\ log_cluster_depth = 4
    /\ max_children = 3
    /\ ingest_limit = MaxIngests
    /\ persistence_handler = FALSE
    /\ max_clusters \in MaxClustersChoices
    /\ InitMiner

NextMaxClusters == \E content \in ContentsMaxChildren : AddLogMessage(content)

SpecMaxClusters == InitMaxClusters /\ [][NextMaxClusters]_vars


\* ------------------------------------------------------------- update_template
\* the tokens of a cluster's template: two words and a minted placeholder
TemplateTokens == { <<"a">>, <<"b">>, get_next_token(1) }

TemplateSeqs == UNION { [1..n -> TemplateTokens] : n \in 0..MaxTemplateLen }

\* the observed token sequences
ObservedSeqs == UNION { [1..n -> { <<"a">>, <<"b">> }] : n \in 0..MaxTemplateLen }

\* the values of the mint counter before the call
CounterChoices == {1, 2}

\* a cluster from LogCluster::new, an observed token sequence and a mint counter
InitGeneralize ==
    /\ log_cluster_depth = 4
    /\ max_children = 3
    /\ ingest_limit = MaxIngests
    /\ persistence_handler = FALSE
    /\ max_clusters = None
    /\ sim_th \in SimThChoices
    /\ parametrize_numeric_tokens = TRUE
    /\ root_node = (<<>> :> NodeNew)
    /\ id_to_cluster = <<>>
    /\ clusters_counter = 0
    /\ token_template_counter = 0
    /\ now = 0
    /\ last_save_time = now
    /\ state_dirty = FALSE
    /\ saved = None
    /\ ret = NoRet
    /\ \E template \in TemplateSeqs : \E tokens \in ObservedSeqs : \E counter \in CounterChoices :
          out = [op |-> "LogCluster::new",
                 arg |-> counter,
                 tokens |-> tokens,
                 result |-> Some(LogClusterNew(template, 1))]
    /\ last_tokens = <<>>
    /\ absorbed = <<>>
    /\ created_count = 0
    /\ n_ingest = 0
    /\ save_call = "NoCall"
    /\ original = None
    /\ loaded = FALSE
    /\ engines = <<>>
    /\ CLUSTER_MAP = <<>>
    /\ construction = [result |-> "Ok", depth |-> log_cluster_depth, instructions |-> <<>>]

\* LogCluster::update_template called on the cluster with the closures of
\* Drain::add_log_message; the record keeps the cluster and the counter of before
UpdateTemplate ==
    /\ out.op = "LogCluster::new"
    /\ LET u == update_template(out.result[1], out.tokens, token_template_check, out.arg)
       IN out' = [op |-> "update_template",
                  arg |-> [cluster |-> out.result[1], counter |-> out.arg],
                  tokens |-> out.tokens,
                  result |-> Some(u)]
    /\ UNCHANGED <<registryVars, cfgVars, drainVars, minerVars, now, ret, histVars>>

NextGeneralize == UpdateTemplate

SpecGeneralize == InitGeneralize /\ [][NextGeneralize]_vars


\* ------------------------------------------------------------------- minting
\* lines of two and of four tokens: two lines of four tokens differ at two positions
ContentsMint ==
    { <<"a", SPACE, "a">>, <<"a", SPACE, "b">>, <<"b", SPACE, "b">>, <<"b", SPACE, "a">>,
      <<"a", SPACE, "a", SPACE, "a", SPACE, "a">>,
      <<"a", SPACE, "a", SPACE, "b", SPACE, "b">> }

\* Drain::new with depth 3, max_children 3
InitMint ==
    /\ log_cluster_depth = 3
    /\ max_children = 3
    /\ ingest_limit = MaxIngestsDeep
    /\ persistence_handler = FALSE
    /\ max_clusters = None
    /\ InitMiner

NextMint == \E content \in ContentsMint : AddLogMessage(content)

SpecMint == InitMint /\ [][NextMint]_vars


\* ------------------------------------------------------------------ fast_match
\* the templates of the candidates: of two tokens, and one of a single token
CandidateTemplates == [1..2 -> TemplateTokens] \cup { << <<"a">> >> }

\* id_to_cluster: the clusters 1..n
CandidateClusters ==
    UNION { { [id \in 1..n |-> LogClusterNew(templates[id], id)] :
              templates \in [1..n -> CandidateTemplates] } : n \in 0..MaxCandidates }

\* cluster_ids: the ids in ascending or in descending order
CandidateLists(n) == { [i \in 1..n |-> i], [i \in 1..n |-> n + 1 - i] }

\* the lines of two tokens
CandidateLines == [1..2 -> { <<"a">>, <<"b">> }]

\* sim_th: 0.4, 0.5 and 1.0
ThresholdChoices == { <<2, 5>>, <<1, 2>>, <<1, 1>> }

\* the arguments of a call of fast_match
InitFastMatch ==
    /\ log_cluster_depth = 4
    /\ max_children = 3
    /\ ingest_limit = MaxIngests
    /\ persistence_handler = FALSE
    /\ max_clusters = None
    /\ sim_th \in SimThChoices
    /\ parametrize_numeric_tokens = TRUE
    /\ root_node = (<<>> :> NodeNew)
    /\ id_to_cluster = <<>>
    /\ clusters_counter = 0
    /\ token_template_counter = 0
    /\ now = 0
    /\ last_save_time = now
    /\ state_dirty = FALSE
    /\ saved = None
    /\ ret = NoRet
    /\ \E clusters \in CandidateClusters : \E cluster_ids \in CandidateLists(Len(clusters)) :
          \E tokens \in CandidateLines : \E th \in ThresholdChoices :
             out = [op |-> "candidates",
                    arg |-> [id_to_cluster |-> clusters, cluster_ids |-> cluster_ids,
                             sim_th |-> th],
                    tokens |-> tokens,
                    result |-> None]
    /\ last_tokens = <<>>
    /\ absorbed = <<>>
    /\ created_count = 0
    /\ n_ingest = 0
    /\ save_call = "NoCall"
    /\ original = None
    /\ loaded = FALSE
    /\ engines = <<>>
    /\ CLUSTER_MAP = <<>>
    /\ construction = [result |-> "Ok", depth |-> log_cluster_depth, instructions |-> <<>>]

\* Drain::fast_match on the arguments, with include_params and the placeholder prefix
\* as Drain::match_cluster's full_search passes them
FastMatch ==
    /\ out.op = "candidates"
    /\ out' = [out EXCEPT !.op = "fast_match",
                          !.result = fast_match(out.arg.id_to_cluster, out.arg.cluster_ids,
                                                out.tokens, out.arg.sim_th, TRUE,
                                                token_template_check)]
    /\ UNCHANGED <<registryVars, cfgVars, drainVars, minerVars, now, ret, histVars>>

NextFastMatch == FastMatch

SpecFastMatch == InitFastMatch /\ [][NextFastMatch]_vars


\* ------------------------------------------------------------- shape of the tree
\* lines of zero to three tokens, with three different first words and a first token
\* with a digit
ContentsTree ==
    { <<>>, <<"A">>, <<"A", SPACE, "x">>, <<"B", SPACE, "y">>, <<"C", SPACE, "z">>,
      <<"d", "1", SPACE, "x", SPACE, "y">>, <<"A", SPACE, "x", SPACE, "y">> }

\* Drain::new with depth 3 or 4 and max_children 1, 2 or 3
InitTree ==
    /\ log_cluster_depth \in {3, 4}
    /\ max_children \in {1, 2, 3}
    /\ ingest_limit = MaxIngestsDeep
    /\ persistence_handler = FALSE
    /\ max_clusters = None
    /\ InitMiner

NextTree == \E content \in ContentsTree : AddLogMessage(content)

SpecTree == InitTree /\ [][NextTree]_vars


\* ------------------------------------------------------- ingests of mixed lines
\* Drain::new with depth 4 and max_children 2 or 3
InitIngest ==
    /\ log_cluster_depth = 4
    /\ max_children \in {2, 3}
    /\ ingest_limit = MaxIngestsDeep
    /\ persistence_handler = FALSE
    /\ max_clusters = None
    /\ InitMiner

\* ingests of an empty and a whitespace-only line, of lines of three tokens that
\* share one or two tokens, one of them with a leading token with a digit, and of
\* two lines of two tokens
SpecIngest ==
    /\ InitIngest
    /\ [][\E content \in { <<>>, <<SPACE>>,
                           <<"A", SPACE, "x", SPACE, "y">>,
                           <<"A", SPACE, "p", SPACE, "q">>,
                           <<"d", "1", SPACE, "x", SPACE, "y">>,
                           <<"A", SPACE, "x">>, <<"A", SPACE, "y">> } :
              AddLogMessage(content)]_vars


\* ------------------------------------------------- lookups below a token layer
\* up to MaxIngests ingests, and lookups under every strategy, of lines of three
\* tokens: two that differ in a leading token with a digit, two that share the
\* leading token only
SpecFallback ==
    /\ InitIngest
    /\ [][\E content \in { <<"d", "1", SPACE, "x", SPACE, "y">>,
                           <<"d", "2", SPACE, "x", SPACE, "y">>,
                           <<"A", SPACE, "p", SPACE, "q">>,
                           <<"A", SPACE, "x", SPACE, "y">> } :
              \/ n_ingest < MaxIngests /\ AddLogMessage(content)
              \/ \E strategy \in Strategies : MatchCluster(content, strategy)]_vars


\* ------------------------------------------------ repeated generalization
\* ingests of lines of four tokens that share the leading token and at least one
\* more position with another line
SpecTemplates ==
    /\ InitIngest
    /\ [][\E content \in { <<"a", SPACE, "a", SPACE, "a", SPACE, "a">>,
                           <<"a", SPACE, "a", SPACE, "a", SPACE, "b">>,
                           <<"a", SPACE, "b", SPACE, "a", SPACE, "b">>,
                           <<"a", SPACE, "b", SPACE, "b", SPACE, "b">>,
                           <<"b", SPACE, "b", SPACE, "b", SPACE, "b">> } :
              AddLogMessage(content)]_vars

\* ================================================================== claims
\* the placeholder predicate of the specification: the token starts with PREFIX+NAME
IsPlaceholder(token) == starts_with(token, token_prefix \o token_template)

ClusterIds == DOMAIN id_to_cluster

\* the ids that occur in the cluster list of the node at path p
IdsAt(p) == { root_node[p][i] : i \in 1..Len(root_node[p]) }

Returned == ret.cluster[1]

\* C1: the k-th ingest that returns Created returns cluster id k: the ids of Created
\* events start at 1, increase by one each time and are never reused
C1_CreatedIdsDense ==
    /\ ret.update_type = "Created" => Returned.cluster_id = created_count
    /\ ClusterIds = 1..created_count

C1_Witness ==
    /\ ret.update_type = "Created"
    /\ created_count = 3
    /\ Returned.cluster_id = 3

\* C2: for every cluster and every line it was returned for, the template has the
\* line's token count and at every position equals the line's token or is a placeholder
C2_TemplateCoversAbsorbed ==
    \A id \in DOMAIN absorbed :
        \A k \in 1..Len(absorbed[id]) :
            LET line == absorbed[id][k]
                template == id_to_cluster[id].tokens
            IN /\ Len(template) = Len(line)
               /\ \A i \in 1..Len(template) :
                     template[i] = line[i] \/ IsPlaceholder(template[i])

C2_Witness ==
    \E id \in DOMAIN absorbed :
        /\ Len(absorbed[id]) = 3
        /\ absorbed[id][1] # absorbed[id][2]
        /\ absorbed[id][3] \notin {absorbed[id][1], absorbed[id][2]}
        /\ \E i \in 1..Len(id_to_cluster[id].tokens) :
              IsPlaceholder(id_to_cluster[id].tokens[i])

\* C3: lines with different token counts are never returned the same cluster: every
\* cluster's template is as long as every line it absorbed, and the cluster is listed
\* only below the root child keyed by the decimal string of that length
C3_LengthPartition ==
    /\ \A id \in DOMAIN absorbed :
          \A j, k \in 1..Len(absorbed[id]) :
              /\ Len(absorbed[id][j]) = Len(absorbed[id][k])
              /\ Len(absorbed[id][j]) = Len(id_to_cluster[id].tokens)
    /\ \A p \in DOMAIN root_node :
          \A id \in IdsAt(p) :
              /\ p # <<>>
              /\ p[1].kind = "child"
              /\ p[1].key = <<DigitChars[Len(id_to_cluster[id].tokens) + 1]>>

C3_Witness ==
    /\ \E id1, id2 \in ClusterIds :
          Len(id_to_cluster[id1].tokens) = 1 /\ Len(id_to_cluster[id2].tokens) = 2
    /\ \E id \in DOMAIN absorbed :
          Len(absorbed[id]) = 2 /\ absorbed[id][1] # absorbed[id][2]

\* C7: a new cluster has size 1, every ingest that returns a cluster adds exactly 1 to
\* its size, also when the template does not change, so the sizes sum to the number
\* of ingests
RECURSIVE SumSizes(_)
SumSizes(ids) ==
    IF ids = {} THEN 0
    ELSE LET id == CHOOSE x \in ids : TRUE
         IN id_to_cluster[id].size + SumSizes(ids \ {id})

C7_SizeCountsIngests ==
    /\ ret.update_type = "Created" => Returned.size = 1
    /\ \A id \in ClusterIds : id_to_cluster[id].size = Len(absorbed[id])
    /\ ret.cluster # None => Returned.size = id_to_cluster[Returned.cluster_id].size
    /\ SumSizes(ClusterIds) = n_ingest

C7_Witness ==
    /\ ret.update_type = "None"
    /\ Returned.size = 3
    /\ Cardinality(ClusterIds) = 1

\* C8: a cluster's token sequence never changes length: it has as many tokens as the
\* line that created it
C8_TokenCountFixed ==
    \A id \in ClusterIds : Len(id_to_cluster[id].tokens) = Len(absorbed[id][1])

C8_Witness ==
    /\ ret.update_type = "Updated"
    /\ Len(Returned.tokens) = 2
    /\ Returned.tokens # absorbed[Returned.cluster_id][1]

\* a lookup of the line just ingested has been made with one of these strategies
MatchedLast(strategies) ==
    /\ out.op = "match_cluster"
    /\ out.arg \in strategies
    /\ out.tokens = last_tokens
    /\ ret.cluster # None

SameAsIngest == out.result # None /\ out.result[1].cluster_id = Returned.cluster_id

\* C4: match_cluster(line, Fast) right after ingest(line) returns the cluster the
\* ingest returned, also when its template holds minted placeholders
C4_FastAfterIngest == MatchedLast({"Fast"}) => SameAsIngest

\* C5: match_cluster(line, Full) and match_cluster(line, Fallback) right after
\* ingest(line) return the cluster the ingest returned
C5_FullAfterIngest == MatchedLast({"Full", "Fallback"}) => SameAsIngest

\* C6: match_cluster and extract_parameters leave the tree, the clusters, the two
\* counters, state_dirty and last_save_time as they were
C6_ReadOnly ==
    [][out'.op \in {"match_cluster", "extract_parameters"}
           => UNCHANGED <<root_node, id_to_cluster, clusters_counter,
                          token_template_counter, state_dirty, last_save_time>>]_vars

C6_Witness ==
    /\ out.op = "match_cluster"
    /\ out.arg = "Fallback"
    /\ out.result # None
    /\ out.result[1].size = 2
    /\ token_template_counter = 1
    /\ state_dirty

\* C9: every cluster id an ingest has returned is in exactly one cluster list of the
\* tree, also when its leading tokens hold digits and it went through wildcard children
Occurrences(id) ==
    { <<p, i>> \in UNION { {p} \X (1..Len(root_node[p])) : p \in DOMAIN root_node } :
          root_node[p][i] = id }

C9_OneLeafPerId ==
    \A id \in DOMAIN absorbed : Cardinality(Occurrences(id)) = 1

C9_Witness ==
    \E id \in DOMAIN absorbed :
        /\ Len(absorbed[id][1]) = 2
        /\ has_numbers(absorbed[id][1][1])
        /\ \E o \in Occurrences(id) : Len(o[1]) = 2 /\ o[1][2] = WildcardEdge
        /\ Cardinality(Occurrences(id)) = 1

\* C10: an ingest that finds no candidate with similarity >= sim_th in the leaf it
\* reaches returns Created with the line's tokens as template and size 1; an ingest
\* that finds one returns a candidate's id with, in its template, exactly the literal
\* positions that differ from the line replaced by the next minted placeholders, and
\* update kind Updated when a position was replaced
C10_Leaf(line) ==
    LET first == get(root_node, <<>>, <<DigitChars[Len(line) + 1]>>)
    IN IF first = None \/ line = <<>> THEN first
       ELSE SearchLoop(root_node, first[1], line, 1, 1, log_cluster_depth - 2)

C10_Ingest ==
    LET line == last_tokens'
        leaf == C10_Leaf(line)
        good == IF leaf = None THEN {}
                ELSE { id \in IdsAt(leaf[1]) :
                         SimGe(get_seq_distance(id_to_cluster[id].tokens, line,
                                                token_template, TRUE)[1], sim_th) }
        new == ret'.cluster[1]
    IN IF good = {}
       THEN /\ ret'.update_type = "Created"
            /\ new.tokens = line
            /\ new.size = 1
            /\ new.cluster_id \notin ClusterIds
       ELSE /\ new.cluster_id \in good
            /\ LET old == id_to_cluster[new.cluster_id].tokens
                   diff == { i \in 1..Len(old) : old[i] # line[i] /\ ~IsPlaceholder(old[i]) }
               IN /\ ret'.update_type = IF diff = {} THEN "None" ELSE "Updated"
                  /\ Len(new.tokens) = Len(old)
                  /\ \A i \in 1..Len(old) :
                        new.tokens[i] =
                            IF i \in diff
                            THEN <<"<", "TOKEN">>
                                 \o to_string(token_template_counter
                                              + Cardinality({ j \in diff : j <= i }))
                                 \o <<">">>
                            ELSE old[i]

IngestedABC ==
    /\ n_ingest = 3
    /\ DOMAIN absorbed = 1..3
    /\ absorbed[1] = << <<<<"A">>>> >>
    /\ absorbed[2] = << <<<<"B">>>> >>
    /\ absorbed[3] = << <<<<"C">>>> >>

LengthNode(n) == <<ChildEdge(to_string(n))>>

IngestStep == n_ingest' = n_ingest + 1

\* C12: a miner constructed over a saved state returns, for every line ingested into
\* it, the cluster id, template, size and update kind that the miner that saved the
\* state returns when it goes on with the same lines
C12_RoundTrip ==
    [][(loaded /\ original # None /\ IngestStep)
          => LET b == drain_add_log_message(original[1], Join(last_tokens'))
             IN ret' = [cluster |-> Some(b.cluster), update_type |-> b.update_type]]_vars

\* C13: an ingest whose snapshot succeeds leaves state_dirty = false and
\* last_save_time = now
C13_SaveResetsDirty ==
    [][(IngestStep /\ save_call' = "Ok")
          => (state_dirty' = FALSE /\ last_save_time' = now')]_vars

\* C14: an ingest whose snapshot fails returns what the engine returns and leaves the
\* engine as an ingest without handler leaves it, state_dirty true, last_save_time and
\* the stored snapshot as they were; the next ingest attempts the snapshot again
C14_FailedSaveKeepsState ==
    [][/\ (IngestStep /\ save_call' = "Err")
          => LET r == drain_add_log_message(Drain, Join(last_tokens'))
             IN /\ ret' = [cluster |-> Some(r.cluster), update_type |-> r.update_type]
                /\ root_node' = r.drain.root_node
                /\ id_to_cluster' = r.drain.id_to_cluster
                /\ clusters_counter' = r.drain.clusters_counter
                /\ token_template_counter' = r.drain.token_template_counter
                /\ state_dirty' = TRUE
                /\ last_save_time' = last_save_time
                /\ saved' = saved
       /\ (IngestStep /\ save_call = "Err") => save_call' \in {"Ok", "Err"}]_vars

C14_Witness ==
    /\ save_call = "Err"
    /\ n_ingest = 2
    /\ ret.update_type = "None"
    /\ saved = None
    /\ now - last_save_time >= 90

\* C15: an ingest sets state_dirty when it returns Created or Updated and leaves it
\* otherwise, nothing else but the construction of a miner changes it, and an ingest
\* calls the handler's save only with a handler attached, state_dirty true after the
\* ingest and snapshot_interval_minutes * 60 seconds or more since last_save_time
C15_DirtyAndSaveGuard ==
    [][/\ IngestStep
          => /\ state_dirty' = (state_dirty \/ ret'.update_type \in {"Created", "Updated"})
             /\ save_call' # "NoCall"
                   => /\ persistence_handler
                      /\ state_dirty'
                      /\ now' - last_save_time >= snapshot_interval_minutes * 60
       /\ (~IngestStep /\ loaded' = loaded) => state_dirty' = state_dirty]_vars

C15_Witness ==
    /\ save_call = "Ok"
    /\ ret.update_type = "None"
    /\ state_dirty
    /\ n_ingest = 3
    /\ last_save_time = 60
    /\ \E id \in ClusterIds : id_to_cluster[id].size = 3

\* the tokens of the line at the positions where the template holds a placeholder
RECURSIVE PlaceholderValues(_, _)
PlaceholderValues(template, line) ==
    IF template = <<>> THEN <<>>
    ELSE (IF IsPlaceholder(Head(template)) THEN <<Head(line)>> ELSE <<>>)
         \o PlaceholderValues(Tail(template), Tail(line))

\* C16: after an ingest of a line that returned cluster C with kind None or Updated,
\* extract_parameters(C's template, line, false) returns a list with one value for
\* every placeholder of the template, in template order, each the token of the line
\* at the placeholder's position
C16_ExtractInverse ==
    (/\ out.op = "extract_parameters"
     /\ out.arg[2] = FALSE
     /\ ret.update_type \in {"None", "Updated"})
        => /\ out.result # None
           /\ [i \in 1..Len(out.result[1]) |-> out.result[1][i].value]
                 = PlaceholderValues(Returned.tokens, last_tokens)

Placeholder(rule) == token_prefix \o rule.mask_with \o token_suffix

\* the first position of s at which the rule's pattern matches, 0 if there is none
FirstMatch(rule, s) ==
    LET hits == { i \in 1..Len(s) : MatchLen(rule.pattern, s, i) > 0 }
    IN IF hits = {} THEN 0 ELSE CHOOSE i \in hits : \A j \in hits : i <= j

\* s with every whole match of the rule replaced by the rule's placeholder: the first
\* match, then the matches of the text after it
RECURSIVE RuleApplied(_, _, _)
RuleApplied(rule, s, from) ==
    LET rest == SubSeq(s, from, Len(s))
        hits == { i \in from..Len(s) : MatchLen(rule.pattern, s, i) > 0 }
    IN IF hits = {} THEN rest
       ELSE LET i == CHOOSE x \in hits : \A y \in hits : x <= y
            IN SubSeq(s, from, i - 1) \o Placeholder(rule)
                   \o RuleApplied(rule, s, i + MatchLen(rule.pattern, s, i))

\* the rules applied in declaration order, each to the output of the one before
RECURSIVE RulesApplied(_, _)
RulesApplied(rules, s) ==
    IF rules = <<>> THEN s
    ELSE RulesApplied(Tail(rules), RuleApplied(Head(rules), s, 1))

\* C17: mask(line) is the text the rules give when applied one after another in
\* declaration order, each replacing every non-overlapping whole match in the output
\* of the rule before by PREFIX + mask_name + SUFFIX; a rule without a match changes
\* nothing and mask always returns a text
C17_MaskInOrder ==
    out.op = "mask"
        => /\ out.result # None
           /\ out.result[1] = RulesApplied(out.arg, out.tokens)
           /\ (\A k \in 1..Len(out.arg) : FirstMatch(out.arg[k], out.tokens) = 0)
                 => out.result[1] = out.tokens

C17_Witness ==
    /\ out.op = "mask"
    /\ Len(out.arg) = 2
    /\ out.arg[1].pattern.kind = "groups"
    /\ out.arg[2].pattern.kind = "digits"
    /\ out.tokens = <<"a", "b", "1">>
    /\ out.result = Some(<<"<", "CMD", ">", "<", "NUM", ">">>)

\* no rule matches inside the text of a placeholder of the rule list
NoRuleMatchesPlaceholder(rules) ==
    \A i, j \in 1..Len(rules) : FirstMatch(rules[i], Placeholder(rules[j])) = 0

\* C18 as stated: when no rule matches text of a placeholder the masker emits,
\* mask(mask(x)) = mask(x)
C18_MaskIdempotent ==
    (out.op = "mask_mask" /\ NoRuleMatchesPlaceholder(out.arg))
        => out.result[1] = out.tokens

\* the pieces a match of the pattern can hold
PatternPieces(pattern) ==
    IF pattern.kind \in {"digits", "bdigits"} THEN Digits
    ELSE { Concat(pattern.parts)[k] : k \in 1..Len(Concat(pattern.parts)) }

\* no match of a rule can overlap the text of a placeholder of the rule list
NoRuleTouchesPlaceholder(rules) ==
    \A i, j \in 1..Len(rules) :
        PatternPieces(rules[i].pattern)
            \cap { Placeholder(rules[j])[k] : k \in 1..Len(Placeholder(rules[j])) } = {}

\* no pattern looks at the text around its match
ContextFree(rules) == \A i \in 1..Len(rules) : rules[i].pattern.kind # "bdigits"

\* C18 amended: when no match of a rule can overlap text of a placeholder the masker
\* emits and no pattern looks at the text around its match, mask(mask(x)) = mask(x)
C18_MaskIdempotentContextFree ==
    (out.op = "mask_mask" /\ NoRuleTouchesPlaceholder(out.arg) /\ ContextFree(out.arg))
        => out.result[1] = out.tokens

C18_Witness ==
    /\ out.op = "mask_mask"
    /\ Len(out.arg) = 2
    /\ out.arg[1].pattern.kind = "digits"
    /\ out.arg[2].pattern.kind = "lit"
    /\ NoRuleTouchesPlaceholder(out.arg)
    /\ out.tokens = <<"<", "B", ">", "<", "NUM", ">">>
    /\ out.result = Some(out.tokens)

C20_MatchExact ==
    (out.op = "match_cluster" /\ out.result # None) =>
        LET template == out.result[1].tokens
        IN /\ Len(template) = Len(out.tokens)
           /\ \A i \in 1..Len(template) :
                 \/ is_token(token_template_check, template[i])
                 \/ template[i] = out.tokens[i]

\* C21: a construction with depth < 3 or with a masking rule whose pattern does not
\* compile panics and no call is ever made on its result; a constructed engine has
\* depth - 2 >= 1
C21_ConstructionChecked ==
    /\ (construction.depth < 3 /\ construction.result # "Unbuilt")
           => construction.result = "Panic"
    /\ (\E i \in 1..Len(construction.instructions) :
            construction.instructions[i].pattern.kind = "invalid")
           => construction.result = "Panic"
    /\ construction.result = "Panic" => (n_ingest = 0 /\ id_to_cluster = <<>>)
    /\ construction.result = "Ok" => log_cluster_depth - 2 >= 1

C21_Witness ==
    /\ construction.result = "Panic"
    /\ construction.depth = 2
    /\ construction.instructions = <<>>

\* C22: no ingest removes a cluster id, and with any max_clusters an ingest returns
\* the cluster and update kind, and leaves the engine, that it does with max_clusters
\* unset
C22_MaxClustersNoEffect ==
    [][IngestStep =>
          /\ DOMAIN id_to_cluster \subseteq DOMAIN id_to_cluster'
          /\ LET r == drain_add_log_message([Drain EXCEPT !.max_clusters = None],
                                            Join(last_tokens'))
             IN /\ ret' = [cluster |-> Some(r.cluster), update_type |-> r.update_type]
                /\ id_to_cluster' = r.drain.id_to_cluster
                /\ root_node' = r.drain.root_node
                /\ clusters_counter' = r.drain.clusters_counter
                /\ token_template_counter' = r.drain.token_template_counter]_vars

C22_Witness ==
    /\ max_clusters = Some(1)
    /\ Cardinality(DOMAIN id_to_cluster) = 3
    /\ ret.update_type = "Created"

\* C23: update_template with an observed sequence of another length than the template
\* returns None and leaves the tokens of the cluster as they were
C23_MismatchReturnsNone ==
    (out.op = "update_template" /\ Len(out.tokens) # Len(out.arg.cluster.tokens)) =>
        /\ out.result[1].update_type = "None"
        /\ out.result[1].cluster.tokens = out.arg.cluster.tokens

\* the positions update_template has to replace
Replaced(old, tokens) ==
    { i \in 1..Len(old) : tokens[i] # old[i] /\ ~is_token(token_template_check, old[i]) }

\* C24: on sequences of equal length update_template keeps a position iff the observed
\* token equals the template token or the template token is a placeholder, puts the
\* next minted placeholders, in order, at the others, returns Updated iff a position
\* was replaced, and advances the mint counter once per replaced position
C24_GeneralizeExact ==
    (out.op = "update_template" /\ Len(out.tokens) = Len(out.arg.cluster.tokens)) =>
        LET old == out.arg.cluster.tokens
            new == out.result[1].cluster.tokens
            replaced == Replaced(old, out.tokens)
        IN /\ Len(new) = Len(old)
           /\ \A i \in 1..Len(old) :
                 new[i] = IF i \in replaced
                          THEN get_next_token(out.arg.counter
                                   + Cardinality({ j \in replaced : j <= i }))
                          ELSE old[i]
           /\ out.result[1].update_type = (IF replaced # {} THEN "Updated" ELSE "None")
           /\ out.result[1].counter = out.arg.counter + Cardinality(replaced)

C24_Witness ==
    /\ out.op = "update_template"
    /\ out.arg.cluster.tokens = << <<"a">>, get_next_token(1) >>
    /\ out.arg.counter = 1
    /\ out.tokens = << <<"b">>, <<"b">> >>
    /\ out.result[1].cluster.tokens = << get_next_token(2), get_next_token(1) >>
    /\ out.result[1].update_type = "Updated"

\* the places (cluster id, position) of the templates that hold the token
PlacesOf(clusters, token) ==
    { p \in UNION { { <<id, i>> : i \in 1..Len(clusters[id].tokens) } : id \in DOMAIN clusters } :
        clusters[p[1]].tokens[p[2]] = token }

\* the tokens of the templates that are placeholders
PlaceholdersIn(clusters) ==
    { t \in UNION { { clusters[id].tokens[i] : i \in 1..Len(clusters[id].tokens) } :
                    id \in DOMAIN clusters } : is_token(token_template_check, t) }

\* C25: an ingest advances the mint counter by the number of positions it replaces in
\* the returned template (by nothing when it returns Created or None), and after it
\* the placeholders in the templates are PREFIX+NAME+j+SUFFIX for j = 1..counter, each
\* at exactly one position of one template
C25_MintCounter ==
    [][IngestStep =>
          LET new == ret'.cluster[1]
              old == IF new.cluster_id \in DOMAIN id_to_cluster
                     THEN id_to_cluster[new.cluster_id].tokens ELSE new.tokens
              replaced == { i \in 1..Len(old) : new.tokens[i] # old[i] }
          IN /\ token_template_counter' = token_template_counter + Cardinality(replaced)
             /\ ret'.update_type \in {"Created", "None"}
                   => token_template_counter' = token_template_counter
             /\ \A j \in 1..token_template_counter' :
                   Cardinality(PlacesOf(id_to_cluster', get_next_token(j))) = 1
             /\ PlaceholdersIn(id_to_cluster')
                   = { get_next_token(j) : j \in 1..token_template_counter' }]_vars

C25_Witness ==
    /\ token_template_counter = 3
    /\ ret.update_type = "Updated"
    /\ Cardinality(DOMAIN id_to_cluster) = 2
    /\ \E id \in DOMAIN id_to_cluster :
          /\ Len(id_to_cluster[id].tokens) = 4
          /\ id_to_cluster[id].tokens[3] = get_next_token(1)
          /\ id_to_cluster[id].tokens[4] = get_next_token(2)

\* the similarity of a template and a line with the placeholders counted by the
\* predicate of the specification
SpecSimilarity(template, line) ==
    get_seq_distance(template, line, token_prefix \o token_template, TRUE)[1]

\* C26: similarity is scored with the predicate 'starts with PREFIX+NAME' on every
\* path: an ingest returns Created exactly when no cluster of the leaf it reaches has
\* that similarity >= sim_th, and match_cluster returns only a cluster of that
\* similarity 1.0, under Fast whenever the leaf it reaches holds one
C26_OnePredicate ==
    [][/\ IngestStep =>
             LET line == last_tokens'
                 leaf == C10_Leaf(line)
                 good == IF leaf = None THEN {}
                         ELSE { id \in IdsAt(leaf[1]) :
                                  SimGe(SpecSimilarity(id_to_cluster[id].tokens, line),
                                        sim_th) }
             IN (ret'.update_type = "Created") <=> (good = {})
       /\ (out' # out /\ out'.op = "match_cluster") =>
             LET line == out'.tokens
                 leaf == C10_Leaf(line)
                 exact == IF leaf = None THEN {}
                          ELSE { id \in IdsAt(leaf[1]) :
                                   SimGe(SpecSimilarity(id_to_cluster[id].tokens, line),
                                         required_sim_th) }
             IN /\ out'.result # None
                    => SimGe(SpecSimilarity(out'.result[1].tokens, line), required_sim_th)
                /\ (out'.arg = "Fast" /\ exact # {}) => out'.result # None]_vars

\* C27: fast_match returns the first candidate of the list among those with the most
\* placeholder positions among those with the highest similarity, if that similarity
\* is >= the threshold, and nothing otherwise or for an empty list
C27_FastMatchBest ==
    out.op = "fast_match" =>
        LET ids == out.arg.cluster_ids
            score(k) == get_seq_distance(out.arg.id_to_cluster[ids[k]].tokens, out.tokens,
                                         token_template_check, TRUE)
            before(j, k) == \/ SimGt(score(j)[1], score(k)[1])
                            \/ SimEq(score(j)[1], score(k)[1]) /\ score(j)[2] > score(k)[2]
                            \/ /\ SimEq(score(j)[1], score(k)[1])
                               /\ score(j)[2] = score(k)[2]
                               /\ j < k
            best == { k \in 1..Len(ids) : \A j \in 1..Len(ids) : ~before(j, k) }
        IN IF ids = <<>> THEN out.result = None
           ELSE \E k \in best :
                   out.result = IF SimGe(score(k)[1], out.arg.sim_th) THEN Some(ids[k])
                                ELSE None

C27_Witness ==
    /\ out.op = "fast_match"
    /\ out.arg.cluster_ids = <<2, 1>>
    /\ out.arg.id_to_cluster[1].tokens = << <<"a">>, get_next_token(1) >>
    /\ out.arg.id_to_cluster[2].tokens = << get_next_token(1), <<"b">> >>
    /\ out.tokens = << <<"a">>, <<"b">> >>
    /\ out.result = Some(2)

\* the node below node p that insertion descends to for the token by the stated rule:
\* the literal child when it exists or, for a token not routed as numeric, when
\* n + 1 < max_children with n the non-wildcard children of p; else the wildcard child
C28_Edge(t, p, token) ==
    IF has_child(t, p, token) THEN ChildEdge(token)
    ELSE IF parametrize_numeric_tokens /\ has_numbers(token) THEN WildcardEdge
    ELSE IF Cardinality({ k \in DOMAIN t : Len(k) = Len(p) + 1 /\ SubSeq(k, 1, Len(p)) = p
                                           /\ k[Len(k)].kind = "child" }) + 1 < max_children
         THEN ChildEdge(token)
    ELSE WildcardEdge

\* the node insertion ends at when every step follows the stated rule
RECURSIVE C28_Leaf(_, _, _, _)
C28_Leaf(t, p, tokens, i) ==
    IF tokens = <<>> \/ i >= log_cluster_depth - 2 \/ i >= Len(tokens) THEN p
    ELSE C28_Leaf(t, Append(p, C28_Edge(t, p, tokens[i])), tokens, i + 1)

\* C28: the insertion of a new cluster creates a literal child for a token without
\* one, not routed as numeric, iff n + 1 < max_children, with or without a wildcard
\* child, and else descends into the wildcard child: the cluster is attached at the
\* node this rule leads to
C28_LiteralChildRule ==
    [][(IngestStep /\ ret'.update_type = "Created") =>
          LET new == ret'.cluster[1]
              leaf == C28_Leaf(root_node, <<ChildEdge(to_string(Len(new.tokens)))>>,
                               new.tokens, 1)
          IN /\ leaf \in DOMAIN root_node'
             /\ \E k \in 1..Len(root_node'[leaf]) : root_node'[leaf][k] = new.cluster_id]_vars

\* the non-wildcard children of the node at path p
LiteralChildren(p) == ChildKeys(root_node, p)

LeavesOf(id) ==
    { p \in DOMAIN root_node : \E k \in 1..Len(root_node[p]) : root_node[p][k] = id }

C31_LeafPrefix ==
    \A p \in DOMAIN root_node :
        \A id \in IdsAt(p) :
            LET template == id_to_cluster[id].tokens
            IN /\ p # <<>>
               /\ p[1].key = to_string(Len(template))
               /\ Len(p) - 1 <= Len(template)
               /\ \A k \in 2..Len(p) : p[k].kind = "child" => template[k - 1] = p[k].key

C31_Witness ==
    /\ ret.update_type = "Updated"
    /\ \E p \in DOMAIN root_node :
          /\ Len(p) = 2
          /\ p[2] = ChildEdge(<<"A">>)
          /\ Returned.cluster_id \in IdsAt(p)
          /\ Returned.tokens = << <<"A">>, get_next_token(1) >>

\* the node reached from p by one choice per level for the tokens from i on: the
\* child keyed by the token if there is one, else the wildcard child, else nothing
RECURSIVE C32_Descend(_, _, _)
C32_Descend(p, line, i) ==
    IF i >= log_cluster_depth - 2 \/ i >= Len(line) THEN Some(p)
    ELSE IF Append(p, ChildEdge(line[i])) \in DOMAIN root_node
         THEN C32_Descend(Append(p, ChildEdge(line[i])), line, i + 1)
    ELSE IF Append(p, WildcardEdge) \in DOMAIN root_node
         THEN C32_Descend(Append(p, WildcardEdge), line, i + 1)
    ELSE None

\* the clusters of the list at p that are similar enough to the line
C32_Candidates(p, line) ==
    { id \in IdsAt(p) :
        SimGe(get_seq_distance(id_to_cluster[id].tokens, line, token_template, TRUE)[1],
              sim_th) }

\* C32: the search makes one choice per level and never goes back: an ingest whose
\* single path ends at no node, or at a list without a similar enough cluster,
\* returns Created, whatever the lists of sibling nodes hold, and otherwise returns
\* a cluster of the list its path ends at
C32_SingleChoice ==
    [][IngestStep =>
          LET line == last_tokens'
              len == <<ChildEdge(to_string(Len(line)))>>
              leaf == IF len \in DOMAIN root_node THEN C32_Descend(len, line, 1) ELSE None
          IN IF leaf = None \/ C32_Candidates(leaf[1], line) = {}
             THEN ret'.update_type = "Created"
             ELSE /\ ret'.update_type # "Created"
                  /\ ret'.cluster[1].cluster_id \in IdsAt(leaf[1])]_vars

\* a line was Created under the literal child "A", whose list held another cluster,
\* while the list of the sibling wildcard child holds a similar enough cluster
C32_Witness ==
    LET literal == <<ChildEdge(to_string(3)), ChildEdge(<<"A">>)>>
        wildcard == <<ChildEdge(to_string(3)), WildcardEdge>>
    IN /\ ret.update_type = "Created"
       /\ Len(last_tokens) = 3
       /\ literal \in DOMAIN root_node
       /\ wildcard \in DOMAIN root_node
       /\ Len(root_node[literal]) >= 2
       /\ Returned.cluster_id \in IdsAt(literal)
       /\ C32_Candidates(wildcard, last_tokens) # {}

\* C33: a Fallback lookup returns the cluster the Fast search of the same line
\* returns whenever that search returns one, and otherwise what the Full search of
\* the line returns
C33_FallbackFastThenFull ==
    [][(out' # out /\ out'.op = "match_cluster" /\ out'.arg = "Fallback") =>
          LET fast == MatchSearch(Drain, out'.tokens)
              full == { full_search(Drain, all_ids, out'.tokens) :
                          all_ids \in get_clusters_ids_for_seq_len(Drain,
                                                                   Len(out'.tokens)) }
          IN IF fast # None THEN out'.result = fast ELSE out'.result \in full]_vars

\* a Fallback lookup returned a cluster although the Fast search of the line returns
\* none
C33_Witness ==
    /\ out.op = "match_cluster"
    /\ out.arg = "Fallback"
    /\ out.result # None
    /\ MatchSearch(Drain, out.tokens) = None

\* the clusters with an empty template
C34_Empty == { id \in DOMAIN id_to_cluster : id_to_cluster[id].tokens = <<>> }

\* C34: the first ingest of a line without tokens creates a cluster with an empty
\* template in the list of the length node keyed "0"; every later one returns that
\* cluster with kind None and its size one higher; there is never a second cluster
\* with an empty template
C34_EmptyLine ==
    [][IngestStep =>
          /\ Cardinality(C34_Empty') <= 1
          /\ last_tokens' = <<>> =>
                LET zero == <<ChildEdge(to_string(0))>>
                    id == ret'.cluster[1].cluster_id
                IN /\ ret'.cluster[1].tokens = <<>>
                   /\ ret'.cluster[1] = id_to_cluster'[id]
                   /\ zero \in DOMAIN root_node'
                   /\ root_node'[zero] = <<id>>
                   /\ IF C34_Empty = {}
                      THEN /\ ret'.update_type = "Created"
                           /\ id \notin DOMAIN id_to_cluster
                           /\ id_to_cluster'[id].size = 1
                      ELSE /\ ret'.update_type = "None"
                           /\ C34_Empty = {id}
                           /\ id_to_cluster'[id].size = id_to_cluster[id].size + 1]_vars

\* a third ingest of a line without tokens returned the cluster of the first
C34_Witness ==
    /\ last_tokens = <<>>
    /\ ret.update_type = "None"
    /\ Returned.tokens = <<>>
    /\ Returned.size = 3
    /\ Cardinality(DOMAIN id_to_cluster) >= 2

\* C35: every cluster is in the list of the node at which the search of each line
\* it absorbed ends
C35_Reachable ==
    \A id \in DOMAIN absorbed :
        \A n \in 1..Len(absorbed[id]) :
            LET line == absorbed[id][n]
                len == <<ChildEdge(to_string(Len(line)))>>
                leaf == IF len \in DOMAIN root_node THEN C32_Descend(len, line, 1) ELSE None
            IN /\ leaf # None
               /\ id \in IdsAt(leaf[1])

\* the node at which the search of a line ends
C35_Leaf(line) ==
    LET len == <<ChildEdge(to_string(Len(line)))>>
    IN IF len \in DOMAIN root_node THEN C32_Descend(len, line, 1) ELSE None

\* the path p takes a wildcard edge where the node now has a child keyed by the
\* token of the line at that position
C35_Shadowed(p, line) ==
    \E k \in 2..Len(p) :
        /\ p[k] = WildcardEdge
        /\ Append(SubSeq(p, 1, k - 1), ChildEdge(line[k - 1])) \in DOMAIN root_node

\* C35 as it holds: every cluster stays in the list of exactly one node; the path to
\* that node agrees with every line the cluster absorbed at its literal edges; the
\* search of such a line ends at that node unless a child keyed by a token of the
\* line exists at a node where the path takes the wildcard edge; the search of the
\* line of the last ingest ends at the node of the cluster the ingest returned
C35_ReachableUnlessShadowed ==
    /\ \A id \in DOMAIN absorbed :
          /\ Cardinality({ p \in DOMAIN root_node : id \in IdsAt(p) }) = 1
          /\ \A n \in 1..Len(absorbed[id]) :
                LET line == absorbed[id][n]
                IN \E p \in DOMAIN root_node :
                      /\ id \in IdsAt(p)
                      /\ Len(p) - 1 <= Len(line)
                      /\ p[1] = ChildEdge(to_string(Len(line)))
                      /\ \A k \in 2..Len(p) :
                            p[k].kind = "child" => line[k - 1] = p[k].key
                      /\ C35_Leaf(line) = Some(p) \/ C35_Shadowed(p, line)
    /\ ret.cluster # None =>
          /\ C35_Leaf(last_tokens) # None
          /\ Returned.cluster_id \in IdsAt(C35_Leaf(last_tokens)[1])

\* the search of a line ends at a child created after the cluster that absorbed the
\* line was attached below the wildcard child of the same node
C35_Witness ==
    \E id \in DOMAIN absorbed :
        \E n \in 1..Len(absorbed[id]) :
            LET line == absorbed[id][n]
                leaf == C35_Leaf(line)
            IN /\ Len(line) = 3
               /\ leaf = Some(<<ChildEdge(to_string(3)), ChildEdge(line[1])>>)
               /\ <<ChildEdge(to_string(3)), WildcardEdge>> \in DOMAIN root_node
               /\ id \in IdsAt(<<ChildEdge(to_string(3)), WildcardEdge>>)
               /\ id \notin IdsAt(leaf[1])

\* C36: no two clusters have the same token sequence, and the ingest of a line that
\* equals the template of a cluster never returns Created
C36_NoDuplicateTemplate ==
    [][IngestStep =>
          /\ \A id1, id2 \in DOMAIN id_to_cluster' :
                id_to_cluster'[id1].tokens = id_to_cluster'[id2].tokens => id1 = id2
          /\ (\E id \in DOMAIN id_to_cluster : id_to_cluster[id].tokens = last_tokens')
                => ret'.update_type # "Created"]_vars

\* the positions of a template that hold no placeholder
C37_Literals(template) ==
    { i \in 1..Len(template) : ~is_token(token_template_check, template[i]) }

\* C37: templates only generalize: in every step every cluster stays, with the same
\* number of tokens; a position that holds a placeholder keeps its token; a literal
\* position keeps its token or takes a placeholder minted in this step, which no
\* template held before; the literal positions of a cluster never become more
C37_OnlyGeneralize ==
    [][\A id \in DOMAIN id_to_cluster :
          /\ id \in DOMAIN id_to_cluster'
          /\ LET old == id_to_cluster[id].tokens
                 new == id_to_cluster'[id].tokens
             IN /\ Len(new) = Len(old)
                /\ \A i \in 1..Len(old) :
                      IF i \in C37_Literals(old)
                      THEN \/ new[i] = old[i]
                           \/ /\ \E j \in (token_template_counter + 1)..token_template_counter' :
                                    new[i] = get_next_token(j)
                              /\ PlacesOf(id_to_cluster, new[i]) = {}
                      ELSE new[i] = old[i]
                /\ C37_Literals(new) \subseteq C37_Literals(old)]_vars

\* a template that held a placeholder was generalized at another position by a line
\* that differs from it at the placeholder too
C37_Witness ==
    /\ ret.update_type = "Updated"
    /\ Len(last_tokens) = 4
    /\ Returned.tokens[4] = get_next_token(1)
    /\ Returned.tokens[2] = get_next_token(2)
    /\ Returned.tokens[1] = <<"a">>
    /\ Returned.size = 3

\* C38: in every state and for every line, a Fast lookup that returns a cluster
\* implies that a Full lookup returns one, and a Fallback lookup returns a cluster
\* exactly when a Full lookup does
C38_FastImpliesFull ==
    \A content \in ContentsMatch :
        LET fast == drain_match_cluster(Drain, content, "Fast")
            full == drain_match_cluster(Drain, content, "Full")
            fallback == drain_match_cluster(Drain, content, "Fallback")
        IN /\ fast # {None} => None \notin full
           /\ (fallback # {None}) <=> (full # {None})

====
